---- MODULE Spec2Model ----
(***************************************************************************)
(* The generic repository of src/utils/base (BaseRepository, BaseService)  *)
(* over a relational store: identifier resolution, recursive expansion of  *)
(* foreign-key-shaped columns, filter translation, create / update /       *)
(* delete / list.                                                          *)
(*                                                                         *)
(* Python strings are sequences of one-character strings, so that          *)
(* endswith, split, join, capitalize, isdigit, int() and UUID() are        *)
(* computed and not assumed.  Python values carry their dynamic type in a  *)
(* tag t: none, int, str, uuid, bool, list, doc.                           *)
(***************************************************************************)
EXTENDS Integers, Sequences, FiniteSets, TLC

VARIABLES store, last

vars == <<store, last>>

(* ------------------------------ bounds -------------------------------- *)

\* keys (integer ids and UUID tokens) range over 1..MaxKey
MaxKey == 2
\* rows held by the whole store
MaxRows == 2
\* rows of the table a paginated list call reads
MaxTeams == 3
\* the limits and the page indexes a paginated list call passes
MaxLimit == 2
MaxPage == 1

(* -------------------------- Python strings ---------------------------- *)

Digits == <<"0", "1", "2", "3", "4", "5", "6", "7", "8", "9">>

LowerCase == <<"a", "b", "c", "d", "e", "f", "g", "h", "i", "j", "k", "l", "m",
               "n", "o", "p", "q", "r", "s", "t", "u", "v", "w", "x", "y", "z">>

UpperCase == <<"A", "B", "C", "D", "E", "F", "G", "H", "I", "J", "K", "L", "M",
               "N", "O", "P", "Q", "R", "S", "T", "U", "V", "W", "X", "Y", "Z">>

Range(f) == {f[i] : i \in DOMAIN f}

IndexOf(seq, c) == CHOOSE i \in DOMAIN seq : seq[i] = c

\* str.upper / str.lower of one character
upper(c) == IF c \in Range(LowerCase) THEN UpperCase[IndexOf(LowerCase, c)] ELSE c

lower(c) == IF c \in Range(UpperCase) THEN LowerCase[IndexOf(UpperCase, c)] ELSE c

\* str.capitalize: first character upper-cased, the rest lower-cased
capitalize(w) == [i \in DOMAIN w |-> IF i = 1 THEN upper(w[i]) ELSE lower(w[i])]

\* str.endswith
endswith(s, suffix) ==
    /\ Len(s) >= Len(suffix)
    /\ SubSeq(s, Len(s) - Len(suffix) + 1, Len(s)) = suffix

\* str.split(sep) for a one-character separator: the list of the pieces
RECURSIVE split(_, _)
split(s, sep) ==
    IF \A i \in DOMAIN s : s[i] # sep
    THEN <<s>>
    ELSE LET i == CHOOSE j \in DOMAIN s :
                      s[j] = sep /\ \A k \in 1..(j - 1) : s[k] # sep
         IN <<SubSeq(s, 1, i - 1)>> \o split(SubSeq(s, i + 1, Len(s)), sep)

\* sep.join(parts)
RECURSIVE join(_, _)
join(sep, parts) ==
    IF parts = <<>> THEN <<>>
    ELSE IF Len(parts) = 1 THEN parts[1]
    ELSE parts[1] \o sep \o join(sep, Tail(parts))

\* parts[0:-1]
AllButLast(parts) == SubSeq(parts, 1, Len(parts) - 1)

\* str.isdigit
isdigit(s) == s # <<>> /\ \A i \in DOMAIN s : s[i] \in Range(Digits)

\* int(s) of an all-digit string
RECURSIVE int(_)
int(s) ==
    IF s = <<>> THEN 0
    ELSE 10 * int(AllButLast(s)) + (IndexOf(Digits, s[Len(s)]) - 1)

\* str(n) of a one-digit number
DigitText(n) == <<Digits[n + 1]>>

\* The text of a UUID is abstracted to "u" followed by one digit: UUID(s)
\* parses exactly these texts and raises ValueError on every other string.
UuidText(k) == <<"u">> \o DigitText(k)

IsUuidText(s) == Len(s) = 2 /\ s[1] = "u" /\ s[2] \in Range(Digits)

UuidOfText(s) == int(<<s[2]>>)

(* --------------------------- Python values ---------------------------- *)

PyNone == [t |-> "none"]

PyInt(n) == [t |-> "int", v |-> n]

PyStr(s) == [t |-> "str", v |-> s]

PyUuid(k) == [t |-> "uuid", v |-> k]

PyBool(b) == [t |-> "bool", v |-> b]

PyList(s) == [t |-> "list", v |-> s]

PyDoc(f) == [t |-> "doc", v |-> f]

\* a mapped object loaded from a row of table cls
PyObj(cls, row) == [t |-> "obj", cls |-> cls, v |-> row]

\* the outcome of a call: a returned value or a raised exception
Return(v) == [k |-> "return", v |-> v]

Raise(e) == [k |-> "raise", e |-> e]

(* ------------------------- entity descriptors -------------------------- *)

c_id == <<"i", "d">>

c_uuid == <<"u", "u", "i", "d">>

c_name == <<"n", "a", "m", "e">>

c_organization_id ==
    <<"o", "r", "g", "a", "n", "i", "z", "a", "t", "i", "o", "n", "_", "i", "d">>

c_is_active == <<"i", "s", "_", "a", "c", "t", "i", "v", "e">>

c_team_id == <<"t", "e", "a", "m", "_", "i", "d">>

c_user_uuid == <<"u", "s", "e", "r", "_", "u", "u", "i", "d">>

c_user_ids == <<"u", "s", "e", "r", "_", "i", "d", "s">>

\* Organization: UUID primary key id, no uuid attribute (UUIDIDMixin)
Organization == <<"O", "r", "g", "a", "n", "i", "z", "a", "t", "i", "o", "n">>

\* User: integer primary key id and unique UUID secondary key uuid
User == <<"U", "s", "e", "r">>

\* Team: an entity of the kind the generic repository is written for and the
\* template's own tables do not show: integer id only, a reference to its
\* own type (team_id, nullable, unconstrained) and a plural column user_ids
Team == <<"T", "e", "a", "m">>

\* Notification: UUID primary key id, the uuid of its user (user_uuid) and
\* the organization_id of OrganizationIDMixin; rows of it are not held in
\* the store of the model, its repository only translates filters
Notification ==
    <<"N", "o", "t", "i", "f", "i", "c", "a", "t", "i", "o", "n">>

\* Base.__subclasses__() by class name: the classes the store holds
Models == {Organization, User, Team}

\* what models.get(name) returns for an unknown name
NoModel == <<>>

\* mapper.columns, in declaration order
Columns(model) ==
    CASE model = Organization -> <<c_id, c_name>>
      [] model = User         -> <<c_id, c_uuid, c_organization_id, c_is_active>>
      [] model = Team         -> <<c_id, c_team_id, c_user_ids>>
      [] model = Notification -> <<c_id, c_user_uuid, c_organization_id>>

\* the SQL type of a column
ColType(model, col) ==
    CASE col = c_id              -> IF model \in {Organization, Notification}
                                    THEN "uuid" ELSE "int"
      [] col = c_user_uuid       -> "uuid"
      [] col = c_uuid            -> "uuid"
      [] col = c_name            -> "str"
      [] col = c_organization_id -> "uuid"
      [] col = c_is_active       -> "bool"
      [] col = c_team_id         -> "int"
      [] col = c_user_ids        -> "int[]"

\* hasattr(model, name)
hasattr(model, name) == name \in Range(Columns(model))

\* model.id.type.python_type == UUID
id_is_UUID(model) == ColType(model, c_id) = "uuid"

(* ------------------------------ the store ------------------------------ *)

\* A predicate of a WHERE clause: column col compared with value v by op,
\* one of "eq" (col == v), "in" (col.in_(v)), "is_null" (col.is_(None)),
\* "any" (col.any(v)), "ge" (col >= v), "le" (col <= v).
Pred(op, col, v) == [op |-> op, col |-> col, v |-> v]

\* Whether the driver accepts Python value v for a parameter of SQL type ty.
\* asyncpg takes an int for an integer, a UUID or a UUID text for a uuid, a
\* str for a varchar; None is NULL for every type; anything else is refused
\* before the statement runs.
Binds(ty, v) ==
    IF v.t = "none" THEN TRUE
    ELSE IF ty = "int" THEN v.t = "int"
    ELSE IF ty = "uuid" THEN v.t = "uuid" \/ (v.t = "str" /\ IsUuidText(v.v))
    ELSE IF ty = "str" THEN v.t = "str"
    ELSE IF ty = "bool" THEN v.t = "bool"
    ELSE FALSE

\* the element type of an array type
ElemType(ty) == IF ty = "int[]" THEN "int" ELSE "none"

\* cell = v in SQL, for a v that binds: NULL equals nothing
SqlEq(cell, v) ==
    IF v.t = "none" \/ cell.t = "none" THEN FALSE
    ELSE IF cell.t = "uuid" /\ v.t = "str" THEN cell.v = UuidOfText(v.v)
    ELSE cell = v

\* whether every parameter of predicate p binds against model's column
PredBinds(model, p) ==
    LET ty == ColType(model, p.col)
    IN  CASE p.op = "eq"      -> Binds(ty, p.v)
          [] p.op = "is_null" -> TRUE
          [] p.op = "in"      -> /\ p.v.t = "list"
                                 /\ \A i \in DOMAIN p.v.v : Binds(ty, p.v.v[i])
          [] p.op = "any"     -> /\ ElemType(ty) # "none"
                                 /\ p.v.t # "none"
                                 /\ Binds(ElemType(ty), p.v)
          [] OTHER            -> FALSE

\* whether row satisfies predicate p
PredHolds(row, p) ==
    LET cell == row[p.col]
    IN  CASE p.op = "eq"      -> IF p.v.t = "none" THEN cell.t = "none"
                                 ELSE SqlEq(cell, p.v)
          [] p.op = "is_null" -> cell.t = "none"
          [] p.op = "in"      -> \E i \in DOMAIN p.v.v : SqlEq(cell, p.v.v[i])
          [] p.op = "any"     -> /\ cell.t = "list"
                                 /\ \E i \in DOMAIN cell.v : SqlEq(cell.v[i], p.v)
          [] OTHER            -> FALSE

\* the store as a session sees it while the round trips on the tables in
\* down fail: st holds the tables a round trip can reach
Failing(st, down) == [model \in (DOMAIN st) \ down |-> st[model]]

\* session.execute(select(model).filter(*preds)): the matching rows in table
\* order, the connection's error when the round trip fails, or the driver's
\* error when a parameter does not bind
select_where(st, model, preds) ==
    IF model \notin DOMAIN st
    THEN Raise("OperationalError")
    ELSE IF \E i \in DOMAIN preds : ~PredBinds(model, preds[i])
    THEN Raise("DBAPIError")
    ELSE Return(SelectSeq(st[model],
                   LAMBDA row : \A i \in DOMAIN preds : PredHolds(row, preds[i])))

\* _execute_query_one_or_none(select(model).where(model.col == v)) on a
\* unique column: the mapped object, None, or the driver's error
execute_query_one_or_none(st, model, col, v) ==
    LET scalar_one_or_none(result) ==
            IF result.k = "raise" THEN result
            ELSE IF result.v = <<>> THEN Return(PyNone)
            ELSE Return(PyObj(model, result.v[1]))
    IN  scalar_one_or_none(select_where(st, model, <<Pred("eq", col, v)>>))

(* ------------------------ Identifier Resolver ------------------------- *)

\* Fault variant of __get_entity_by_id_or_uuid: a string that is not a UUID
\* is given up at once, the all-digit fallback to the integer id is missing.
get_entity_by_id_or_uuid_without_fallback(st, model, entity_id) ==
    IF model = NoModel THEN Raise("AttributeError")
    ELSE IF hasattr(model, c_uuid) /\ hasattr(model, c_id) THEN
        IF entity_id.t = "str" THEN
            IF IsUuidText(entity_id.v)
            THEN execute_query_one_or_none(st, model,
                                           IF id_is_UUID(model) THEN c_id ELSE c_uuid,
                                           PyUuid(UuidOfText(entity_id.v)))
            ELSE Return(PyNone)
        ELSE IF entity_id.t = "int" \/ id_is_UUID(model)
        THEN execute_query_one_or_none(st, model, c_id, entity_id)
        ELSE execute_query_one_or_none(st, model, c_uuid, entity_id)
    ELSE
        IF entity_id.t = "str" /\ isdigit(entity_id.v)
        THEN execute_query_one_or_none(st, model, c_id, PyInt(int(entity_id.v)))
        ELSE execute_query_one_or_none(st, model, c_id, entity_id)

\* BaseRepository.__get_entity_by_id_or_uuid
get_entity_by_id_or_uuid(st, model, entity_id) ==
    IF model = NoModel THEN Raise("AttributeError")
    ELSE IF hasattr(model, c_uuid) /\ hasattr(model, c_id) THEN
        IF id_is_UUID(model) THEN
            IF entity_id.t = "str" THEN
                IF IsUuidText(entity_id.v)
                THEN execute_query_one_or_none(st, model, c_id,
                                               PyUuid(UuidOfText(entity_id.v)))
                ELSE Return(PyNone)
            ELSE execute_query_one_or_none(st, model, c_id, entity_id)
        ELSE
            IF entity_id.t = "str" THEN
                IF IsUuidText(entity_id.v)
                THEN execute_query_one_or_none(st, model, c_uuid,
                                               PyUuid(UuidOfText(entity_id.v)))
                ELSE IF isdigit(entity_id.v)
                THEN execute_query_one_or_none(st, model, c_id,
                                               PyInt(int(entity_id.v)))
                ELSE Return(PyNone)
            ELSE IF entity_id.t = "int"
            THEN execute_query_one_or_none(st, model, c_id, entity_id)
            ELSE execute_query_one_or_none(st, model, c_uuid, entity_id)
    ELSE
        IF entity_id.t = "str" /\ isdigit(entity_id.v)
        THEN execute_query_one_or_none(st, model, c_id, PyInt(int(entity_id.v)))
        ELSE execute_query_one_or_none(st, model, c_id, entity_id)

(* ---------------------- Recursive Entity Expander --------------------- *)

\* BaseRepository._is_model_id_or_uuid
is_model_id_or_uuid(column_name) ==
    endswith(column_name, <<"i", "d">>) \/ endswith(column_name, <<"u", "u", "i", "d">>)

\* BaseRepository._is_model_ids_or_uuids
is_model_ids_or_uuids(column_name) ==
    \/ endswith(column_name, <<"i", "d", "s">>)
    \/ endswith(column_name, <<"u", "u", "i", "d", "s">>)

\* "_".join(column.split("_")[0:-1])
strip_last_word(column) == join(<<"_">>, AllButLast(split(column, "_")))

\* the concatenation of the capitalized words of a list
RECURSIVE join_capitalized(_)
join_capitalized(words) ==
    IF words = <<>> THEN <<>>
    ELSE capitalize(Head(words)) \o join_capitalized(Tail(words))

\* Fault variant of __get_model_by_name: the table name is looked up as it
\* is, without being turned into a class name.
get_model_by_name_exact(model_name) ==
    IF model_name \in Models THEN model_name ELSE NoModel

\* BaseRepository.__get_model_by_name
get_model_by_name(model_name) ==
    LET class_name == join_capitalized(split(model_name, "_"))
    IN  IF class_name \in Models THEN class_name ELSE NoModel

\* BaseRepository.__object_as_dict
object_as_dict(obj) == obj.v

\* json_obj[key] = value
DictSet(json_obj, key, value) ==
    [x \in (DOMAIN json_obj) \cup {key} |-> IF x = key THEN value ELSE json_obj[x]]

\* BaseRepository.__add_fields_to_json
RECURSIVE add_fields_to_json(_, _)
add_fields_to_json(json_obj, fields_to_add) ==
    IF fields_to_add = <<>> THEN json_obj
    ELSE LET column_name == Head(fields_to_add)[1]
             sub_json    == Head(fields_to_add)[2]
         IN  add_fields_to_json(
                 IF sub_json # PyNone THEN DictSet(json_obj, column_name, sub_json)
                 ELSE json_obj,
                 Tail(fields_to_add))

RECURSIVE Concat(_)
Concat(seqs) == IF seqs = <<>> THEN <<>> ELSE Head(seqs) \o Concat(Tail(seqs))

\* BaseRepository.__get_one_recursive: the document of the row item_id
\* resolves to, or None.  The sub-fetches of a plural column are gathered
\* in the order of the column's list.
RECURSIVE get_one_recursive(_, _, _, _)
get_one_recursive(st, model, item_id, recursive_depth) ==
    LET \* what one column appends to jsons_to_add_to_final_result
        to_add(column, value, column_name, sub_model) ==
            IF is_model_id_or_uuid(column) THEN
                IF sub_model # NoModel
                THEN << <<column_name,
                          get_one_recursive(st, sub_model, value,
                                            recursive_depth - 1)>> >>
                ELSE <<>>
            ELSE IF is_model_ids_or_uuids(column) THEN
                IF value # PyNone
                THEN LET gather(vals) ==
                             PyList([i \in DOMAIN vals |->
                                        get_one_recursive(st, sub_model, vals[i],
                                                          recursive_depth - 1)])
                     IN  << <<column_name \o <<"s">>,
                              gather(SelectSeq(value.v, LAMBDA val : val # PyNone))>> >>
                ELSE <<>>
            ELSE <<>>
        of_column(column, value, column_name) ==
            to_add(column, value, column_name, get_model_by_name(column_name))
        expanded(json_result, columns) ==
            PyDoc(add_fields_to_json(
                      json_result,
                      IF recursive_depth > 0
                      THEN Concat([i \in DOMAIN columns |->
                                      of_column(columns[i], json_result[columns[i]],
                                                strip_last_word(columns[i]))])
                      ELSE <<>>))
        of_result(object_result) ==
            IF object_result.k = "raise" THEN PyNone
            ELSE IF object_result.v = PyNone THEN PyNone
            ELSE expanded(object_as_dict(object_result.v), Columns(model))
    IN  of_result(get_entity_by_id_or_uuid(st, model, item_id))

(* --------------------------- CRUD Orchestrator ------------------------ *)

\* recursive_depth defaults
get_entity_from_db_by_id_depth == 4

get_all_entities_from_db_depth == 4

get_one_recursive_depth == 2

\* ForeignKey("organization.id", ondelete="CASCADE"), nullable=False, of
\* User.organization_id: whether row may be stored in table model
ForeignKeysHold(st, model, row) ==
    model = User =>
        \E i \in DOMAIN st[Organization] :
            st[Organization][i][c_id] = row[c_organization_id]

\* ondelete="CASCADE": the users of a deleted organization go with it
Cascade(st) ==
    [st EXCEPT ![User] = SelectSeq(@, LAMBDA row : ForeignKeysHold(st, User, row))]

\* the value a dict holds for key, None when the key is absent (dict.get)
DictGet(d, key) == IF key \in DOMAIN d THEN d[key] ELSE PyNone

\* A table is scanned in primary-key order: the table with row added
Stored(table, row) ==
    LET before == SelectSeq(table, LAMBDA r : r[c_id].v < row[c_id].v)
        after  == SelectSeq(table, LAMBDA r : r[c_id].v > row[c_id].v)
    IN  before \o <<row>> \o after

\* session.execute(insert(model).values(**values).returning(model.id)): the
\* store after the insert and the new id, or the constraint violation.
\* keys holds the generated key columns.
insert_returning_id(st, model, values, keys) ==
    LET inserted(row) ==
            IF ForeignKeysHold(st, model, row)
            THEN [st |-> [st EXCEPT ![model] = Stored(@, row)],
                  out |-> Return(row[c_id])]
            ELSE [st |-> st, out |-> Raise("IntegrityError")]
    IN  inserted([c \in Range(Columns(model)) |->
                     IF c \in DOMAIN keys THEN keys[c] ELSE DictGet(values, c)])

\* BaseRepository.create_entity_in_db
create_entity_in_db(st, model, entity, keys) ==
    LET refetched(result, created_entity) ==
            IF created_entity.k = "raise" THEN [st |-> st, out |-> created_entity]
            ELSE IF created_entity.v # PyNone
            THEN [st |-> result.st,
                  out |-> Return(PyDoc(object_as_dict(created_entity.v)))]
            ELSE [st |-> result.st,
                  out |-> Return(get_one_recursive(result.st, model, result.out.v,
                                                   get_one_recursive_depth))]
        created(result) ==
            IF result.out.k = "raise" THEN result
            ELSE IF hasattr(model, c_uuid) /\ id_is_UUID(model)
            THEN refetched(result,
                           execute_query_one_or_none(result.st, model, c_id,
                                                     result.out.v))
            ELSE [st |-> result.st,
                  out |-> Return(get_one_recursive(result.st, model, result.out.v,
                                                   get_one_recursive_depth))]
    IN  created(insert_returning_id(st, model, entity, keys))

\* Fault variant of get_entity_from_db_by_id: the caller's recursive_depth
\* is not forwarded, the expansion runs at the default depth.
get_entity_from_db_by_id_default_depth(st, model, entity_id, recursive_depth) ==
    Return(get_one_recursive(st, model, entity_id, get_entity_from_db_by_id_depth))

\* Fault variant of get_entity_from_db_by_id: a recursive_depth of 0 is
\* taken for a missing argument ("if not recursive_depth: return None").
get_entity_from_db_by_id_falsy_depth(st, model, entity_id, recursive_depth) ==
    IF recursive_depth = 0 THEN Return(PyNone)
    ELSE Return(get_one_recursive(st, model, entity_id, recursive_depth))

\* BaseRepository.get_entity_from_db_by_id
get_entity_from_db_by_id(st, model, entity_id, recursive_depth) ==
    IF /\ hasattr(model, c_uuid) /\ hasattr(model, c_id)
       /\ id_is_UUID(model)
       /\ entity_id.t = "str"
    THEN IF IsUuidText(entity_id.v)
         THEN Return(get_one_recursive(st, model, PyUuid(UuidOfText(entity_id.v)),
                                       recursive_depth))
         ELSE Return(PyNone)
    ELSE Return(get_one_recursive(st, model, entity_id, recursive_depth))

\* the AsyncSession of the request, as the service hands it on
Session == [t |-> "session"]

\* A call the service makes on its repository: the method and its keyword
\* arguments
RepositoryCall(method, kwargs) == [method |-> method, kwargs |-> kwargs]

\* self.schemas.get_response_scheme(**entity_data): the response scheme of
\* the type built from the fields of a document; ** of None is a TypeError
get_response_scheme(model, entity_data) ==
    IF entity_data.t = "doc"
    THEN Return([t |-> "scheme", cls |-> model, v |-> entity_data.v])
    ELSE Raise("TypeError")

\* Fault variant of BaseService.get_entity_by_id: the None of the repository
\* is handed on instead of being turned into NotFoundException.
get_entity_by_id_unchecked(st, model, entity_id) ==
    [st |-> st,
     calls |-> <<RepositoryCall("get_entity_from_db_by_id",
                                [entity_id |-> entity_id, session |-> Session])>>,
     out |-> get_entity_from_db_by_id(st, model, entity_id,
                                      get_entity_from_db_by_id_depth)]

\* BaseService.get_entity_by_id: what it calls on the repository and how
\* it ends
get_entity_by_id(st, model, entity_id) ==
    LET checked(entity_data) ==
            IF entity_data.k = "raise" THEN entity_data
            ELSE IF entity_data.v = PyNone THEN Raise("NotFoundException")
            ELSE get_response_scheme(model, entity_data.v)
    IN  [st |-> st,
         calls |-> <<RepositoryCall("get_entity_from_db_by_id",
                                    [entity_id |-> entity_id, session |-> Session])>>,
         out |-> checked(get_entity_from_db_by_id(st, model, entity_id,
                                                  get_entity_from_db_by_id_depth))]

\* session.execute(update(model).where(model.col == v).values(**values)):
\* the store after the update, or the error
update_where(st, model, col, v, values) ==
    LET Updated(row) == [c \in DOMAIN row |-> IF c \in DOMAIN values THEN values[c]
                                                ELSE row[c]]
        Hit(row) == PredHolds(row, Pred("eq", col, v))
        written(table) ==
            IF ~PredBinds(model, Pred("eq", col, v))
            THEN [st |-> st, out |-> Raise("DBAPIError")]
            ELSE IF \E i \in DOMAIN table : ~ForeignKeysHold(st, model, table[i])
            THEN [st |-> st, out |-> Raise("IntegrityError")]
            ELSE [st |-> [st EXCEPT ![model] = table], out |-> Return(PyNone)]
    IN  written([i \in DOMAIN st[model] |->
                    IF Hit(st[model][i]) THEN Updated(st[model][i])
                    ELSE st[model][i]])

\* {k: v for k, v in entity.model_dump(exclude_unset=True).items() if v is not None}
NonNullFields(entity) ==
    [c \in {x \in DOMAIN entity : entity[x] # PyNone} |-> entity[c]]

\* BaseRepository.update_entity_in_db; entity holds the fields that are set
update_entity_in_db(st, model, entity_id, entity) ==
    LET invalid_uuid == hasattr(model, c_uuid) /\ entity_id.t = "str"
                            /\ ~IsUuidText(entity_id.v)
        key == IF hasattr(model, c_uuid) THEN c_uuid ELSE c_id
        \* the store the re-expansion reads: the one the update statement
        \* left, or st when there was nothing to write
        reexpanded(id, result) ==
            IF result.out.k = "raise" THEN result
            ELSE [st |-> result.st,
                  out |-> Return(get_one_recursive(result.st, model, id,
                                                   get_one_recursive_depth))]
        updated(id, entity_from_db, update_data) ==
            IF invalid_uuid THEN [st |-> st, out |-> Raise("NotFoundException")]
            ELSE IF entity_from_db.k = "raise" THEN [st |-> st, out |-> entity_from_db]
            ELSE IF entity_from_db.v = PyNone
            THEN [st |-> st, out |-> Raise("NotFoundException")]
            ELSE reexpanded(id,
                            IF DOMAIN update_data = {}
                            THEN [st |-> st, out |-> Return(PyNone)]
                            ELSE update_where(st, model, key, id, update_data))
        looked_up(id) ==
            updated(id, execute_query_one_or_none(st, model, key, id),
                    NonNullFields(entity))
    IN  looked_up(IF hasattr(model, c_uuid)
                  THEN IF entity_id.t = "str" /\ IsUuidText(entity_id.v)
                       THEN PyUuid(UuidOfText(entity_id.v)) ELSE entity_id
                  ELSE IF entity_id.t = "str" /\ isdigit(entity_id.v)
                       THEN PyInt(int(entity_id.v)) ELSE entity_id)

\* session.execute(delete(model).where(model.col == v)), with the cascade
delete_where(st, model, col, v) ==
    IF ~PredBinds(model, Pred("eq", col, v))
    THEN [st |-> st, out |-> Raise("DBAPIError")]
    ELSE [st |-> Cascade([st EXCEPT ![model] =
                     SelectSeq(@, LAMBDA row : ~PredHolds(row, Pred("eq", col, v)))]),
          out |-> Return(PyNone)]

\* JSONResponse(content=None, status_code=204)
NoContent == [t |-> "response", status_code |-> 204]

\* BaseRepository.delete_entity_from_db_by_id
delete_entity_from_db_by_id(st, model, entity_id) ==
    LET id == IF hasattr(model, c_uuid)
              THEN IF entity_id.t = "str" /\ IsUuidText(entity_id.v)
                   THEN PyUuid(UuidOfText(entity_id.v)) ELSE entity_id
              ELSE IF entity_id.t = "str" /\ isdigit(entity_id.v)
                   THEN PyInt(int(entity_id.v)) ELSE entity_id
        key == IF hasattr(model, c_uuid) THEN c_uuid ELSE c_id
        responded(result) ==
            IF result.out.k = "raise" THEN result
            ELSE [st |-> result.st, out |-> Return(NoContent)]
        deleted(entity_from_db) ==
            IF entity_from_db.k = "raise" THEN [st |-> st, out |-> entity_from_db]
            ELSE IF entity_from_db.v = PyNone
            THEN [st |-> st, out |-> Raise("NotFoundException")]
            ELSE IF hasattr(model, c_uuid) /\ entity_id.t = "str"
                        /\ ~IsUuidText(entity_id.v)
            THEN [st |-> st, out |-> Raise("NotFoundException")]
            ELSE responded(delete_where(st, model, key, id))
    IN  deleted(get_entity_by_id_or_uuid(st, model, entity_id))

(* --------------------------- Filter Translator ------------------------ *)

p_user_id == <<"u", "s", "e", "r", "_", "i", "d">>

p_team_ids == <<"t", "e", "a", "m", "_", "i", "d", "s">>

p_limit == <<"l", "i", "m", "i", "t">>

p_offset == <<"o", "f", "f", "s", "e", "t">>

\* a parameter no entity type has a field for
p_sort == <<"s", "o", "r", "t">>

p_time_start == <<"t", "i", "m", "e", "_", "s", "t", "a", "r", "t">>

p_time_finish == <<"t", "i", "m", "e", "_", "f", "i", "n", "i", "s", "h">>

\* Query parameters are a dict, kept as the sequence of its items
\* <<name, value>> in insertion order; the empty dict stands for None too.
Get(query_parameters, name) ==
    IF \E i \in DOMAIN query_parameters : query_parameters[i][1] = name
    THEN query_parameters[CHOOSE i \in DOMAIN query_parameters :
                              query_parameters[i][1] = name][2]
    ELSE PyNone

\* the truth value Python gives a value
truthy(v) ==
    CASE v.t = "none" -> FALSE
      [] v.t = "bool" -> v.v
      [] v.t = "int"  -> v.v # 0
      [] v.t = "str"  -> v.v # <<>>
      [] v.t = "list" -> v.v # <<>>
      [] OTHER        -> TRUE

\* str(v) if isinstance(v, UUID) else v
str_if_uuid(v) == IF v.t = "uuid" THEN PyStr(UuidText(v.v)) ELSE v

\* the value as the loop of the translator rewrites it
stringified(value) ==
    IF value.t = "uuid" THEN str_if_uuid(value)
    ELSE IF value.t = "list"
    THEN PyList([i \in DOMAIN value.v |-> str_if_uuid(value.v[i])])
    ELSE value

\* Fault variant of the loop body: the branch for boolean values is missing.
param_filters_without_bool(model, param, raw) ==
    LET value == stringified(raw)
    IN  (IF is_model_id_or_uuid(param)
         THEN IF value = PyNone THEN <<Pred("is_null", param, PyNone)>>
              ELSE IF value.t = "list" THEN <<Pred("in", param, value)>>
              ELSE <<Pred("eq", param, value)>>
         ELSE <<>>)
        \o
        (IF is_model_ids_or_uuids(param)
         THEN IF hasattr(model, param) THEN <<Pred("any", param, value)>>
              ELSE <<Pred("in", AllButLast(param), value)>>
         ELSE <<>>)

\* the predicates one item of the loop appends, in order
param_filters(model, param, raw) ==
    LET value == stringified(raw)
    IN  (IF is_model_id_or_uuid(param)
         THEN IF value = PyNone THEN <<Pred("is_null", param, PyNone)>>
              ELSE IF value.t = "list" THEN <<Pred("in", param, value)>>
              ELSE <<Pred("eq", param, value)>>
         ELSE <<>>)
        \o
        (IF is_model_ids_or_uuids(param)
         THEN IF hasattr(model, param) THEN <<Pred("any", param, value)>>
              ELSE <<Pred("in", AllButLast(param), value)>>
         ELSE <<>>)
        \o
        (IF raw.t = "bool" THEN <<Pred("eq", param, value)>> ELSE <<>>)

\* BaseRepository._process_filters_of_query_parameters: the list of
\* predicates, or the AttributeError of getattr on a name the model (or the
\* repository, for parse_datetime) does not have
process_filters_of_query_parameters(model, filters, query_parameters) ==
    LET processed(all) ==
            IF query_parameters = <<>> THEN Return(filters)
            ELSE IF \E i \in DOMAIN all : ~hasattr(model, all[i].col)
            THEN Raise("AttributeError")
            ELSE IF \/ truthy(Get(query_parameters, p_time_start))
                    \/ truthy(Get(query_parameters, p_time_finish))
            THEN Raise("AttributeError")
            ELSE Return(all)
        looped(user_id, rewrite, processed_params) ==
            processed(filters
                      \o (IF rewrite THEN <<Pred("eq", c_user_uuid, user_id)>>
                          ELSE <<>>)
                      \o Concat([i \in DOMAIN processed_params |->
                                   param_filters(model, processed_params[i][1],
                                                 processed_params[i][2])]))
        rewritten(user_id, rewrite) ==
            looped(user_id, rewrite,
                   IF rewrite
                   THEN SelectSeq(query_parameters, LAMBDA item : item[1] # p_user_id)
                   ELSE query_parameters)
        with_user_id(user_id) ==
            rewritten(user_id, truthy(user_id) /\ hasattr(model, c_user_uuid))
    IN  with_user_id(Get(query_parameters, p_user_id))

\* query.offset(n) / query.limit(n) on the selected rows
Offset(rows, n) == SubSeq(rows, n + 1, Len(rows))

Limit(rows, n) == SubSeq(rows, 1, IF n < Len(rows) THEN n ELSE Len(rows))

\* BaseRepository.__get_all_recursive
get_all_recursive(st, model, query_parameters, recursive_depth) ==
    LET limit == Get(query_parameters, p_limit)
        offset == Get(query_parameters, p_offset)
        expanded(page) ==
            Return(PyList([i \in DOMAIN page |->
                      get_one_recursive(st, model, page[i][c_id], recursive_depth)]))
        paged(rows) ==
            expanded(IF query_parameters = <<>> THEN rows
                     ELSE IF truthy(offset) /\ truthy(limit)
                     THEN Offset(rows, offset.v * limit.v)
                     ELSE IF truthy(limit) THEN Limit(rows, limit.v)
                     ELSE IF truthy(offset) THEN Offset(rows, offset.v)
                     ELSE rows)
        executed(selected) ==
            IF selected.k = "raise" THEN selected ELSE paged(selected.v)
        filtered(filters) ==
            IF filters.k = "raise" THEN filters
            ELSE IF query_parameters # <<>> /\ filters.v = <<>>
            THEN Raise("UnboundLocalError")
            ELSE executed(select_where(st, model, filters.v))
    IN  filtered(process_filters_of_query_parameters(model, <<>>, query_parameters))

\* BaseRepository.get_all_entities_from_db
get_all_entities_from_db(st, model, query_parameters, recursive_depth) ==
    get_all_recursive(st, model, query_parameters, recursive_depth)

(* ------------------------------ BaseService --------------------------- *)

\* recursive_depth defaults of the service
get_all_entities_depth == 4

get_all_filtered_entities_depth == 4

\* whether the create / update request scheme of the type declares field
\* name: CreateUserScheme and UpdateUserScheme declare organization_id
SchemeHas(model, name) == model = User /\ name = c_organization_id

\* entity.organization_id = user.organization_id
owned_by(entity, user) ==
    [c \in (DOMAIN entity) \cup {c_organization_id} |->
        IF c = c_organization_id THEN user.organization_id ELSE entity[c]]

\* the repository's outcome as the service passes it on: the exceptions of
\* class caught become BadRequestException, a None entity becomes
\* NotFoundException where none_is_not_found, a document becomes the
\* response scheme
scheme_or_error(model, result, caught, none_is_not_found) ==
    IF result.k = "raise"
    THEN IF result.e \in caught THEN Raise("BadRequestException") ELSE result
    ELSE IF none_is_not_found /\ result.v = PyNone THEN Raise("NotFoundException")
    ELSE get_response_scheme(model, result.v)

\* BaseService.create_entity; user is None or the acting user
create_entity(st, model, entity, keys, user) ==
    LET delegated(sent, result) ==
            [st |-> result.st,
             calls |-> <<RepositoryCall("create_entity_in_db",
                                        [entity |-> sent, session |-> Session])>>,
             out |-> scheme_or_error(model, result.out, {"ValueError"}, FALSE)]
        sending(sent) == delegated(sent, create_entity_in_db(st, model, sent, keys))
    IN  sending(IF user # PyNone /\ c_organization_id \in DOMAIN entity
                THEN owned_by(entity, user) ELSE entity)

\* BaseService.update_entity
update_entity(st, model, entity_id, entity, user) ==
    LET delegated(sent, result) ==
            [st |-> result.st,
             calls |-> <<RepositoryCall("update_entity_in_db",
                                        [entity_id |-> entity_id, entity |-> sent,
                                         session |-> Session])>>,
             out |-> scheme_or_error(model, result.out, {"ValueError"}, TRUE)]
        sending(sent) ==
            delegated(sent, update_entity_in_db(st, model, entity_id, sent))
    IN  sending(IF SchemeHas(model, c_organization_id)
                THEN owned_by(entity, user) ELSE entity)

\* Fault variant of BaseService.delete_entity_by_id: the response of the
\* repository is returned to the caller.
delete_entity_by_id_returning_response(st, model, entity_id) ==
    LET delegated(result) ==
            [st |-> result.st,
             calls |-> <<RepositoryCall("delete_entity_from_db_by_id",
                                        [entity_id |-> entity_id,
                                         session |-> Session])>>,
             out |-> result.out]
    IN  delegated(delete_entity_from_db_by_id(st, model, entity_id))

\* BaseService.delete_entity_by_id; IntegrityError is the DatabaseError the
\* store raises
delete_entity_by_id(st, model, entity_id) ==
    LET delegated(result) ==
            [st |-> result.st,
             calls |-> <<RepositoryCall("delete_entity_from_db_by_id",
                                        [entity_id |-> entity_id,
                                         session |-> Session])>>,
             out |-> IF result.out.k = "raise"
                     THEN IF result.out.e \in {"DatabaseError", "IntegrityError"}
                          THEN Raise("BadRequestException") ELSE result.out
                     ELSE Return(PyNone)]
    IN  delegated(delete_entity_from_db_by_id(st, model, entity_id))

\* BaseService.get_all_entities: every exception of the repository call
\* and of the building of the schemes becomes BadRequestException
get_all_entities(st, model, query_parameters, recursive_depth) ==
    LET schemes(all_entities) ==
            IF \E i \in DOMAIN all_entities : all_entities[i].t # "doc"
            THEN Raise("BadRequestException")
            ELSE Return(PyList([i \in DOMAIN all_entities |->
                                   get_response_scheme(model, all_entities[i]).v]))
        delegated(result) ==
            [st |-> st,
             calls |-> <<RepositoryCall("get_all_entities_from_db",
                                        [session |-> Session,
                                         query_parameters |-> query_parameters,
                                         recursive_depth |-> recursive_depth])>>,
             out |-> IF result.k = "raise" THEN Raise("BadRequestException")
                     ELSE schemes(result.v.v)]
    IN  delegated(get_all_entities_from_db(st, model, query_parameters,
                                           recursive_depth))

\* BaseService.get_all_filtered_entities
get_all_filtered_entities(st, model, query_parameters, recursive_depth) ==
    get_all_entities(st, model, query_parameters, recursive_depth)

(* ------------------------------- inputs ------------------------------- *)

Keys == 1..MaxKey

\* the recursion depths a caller passes: none, one level, the depth of a
\* create or update
Depths == 0..get_one_recursive_depth

\* the forms a caller gives an identifier in: an integer, its decimal text,
\* a UUID, its text, and a text that is neither
Identifiers ==
    {PyInt(n) : n \in Keys} \cup {PyStr(DigitText(n)) : n \in Keys}
    \cup {PyUuid(k) : k \in Keys} \cup {PyStr(UuidText(k)) : k \in Keys}
    \cup {PyStr(<<"x">>)}

Acme == PyStr(<<"A", "c", "m", "e">>)

\* the values of a Team's user_ids
UserIdLists == {PyNone, PyList(<<PyInt(2), PyInt(1)>>)}

\* the values of a Team's team_id: no parent, or the first team (its own
\* parent when it is the first team itself)
TeamIds == {PyNone, PyInt(1)}

\* the query parameters of a list call
QueryParameters ==
    { <<>>,
      << <<c_organization_id, PyList(<<PyStr(UuidText(1)), PyStr(UuidText(2))>>)>>,
         <<c_is_active, PyBool(TRUE)>> >>,
      << <<c_organization_id, PyUuid(1)>> >>,
      << <<c_organization_id, PyNone>> >>,
      << <<c_is_active, PyBool(FALSE)>> >>,
      << <<c_user_ids, PyList(<<PyInt(1), PyInt(2)>>)>> >>,
      << <<p_team_ids, PyList(<<PyInt(1), PyInt(2)>>)>> >>,
      << <<c_team_id, PyInt(1)>> >>,
      << <<p_sort, PyStr(<<"x">>)>> >> }

\* the text of a date, as time_start / time_finish carry it, and a text
\* that is no date
DateText == <<"2", "0", "2", "4", "-", "0", "1", "-", "3", "1">>

NoDateText == <<"x">>

\* the query parameters of a list call that filters by time
TemporalQueryParameters ==
    { << <<p_time_start, PyStr(DateText)>> >>,
      << <<p_time_start, PyStr(NoDateText)>> >>,
      << <<p_time_finish, PyStr(DateText)>> >>,
      << <<c_is_active, PyBool(TRUE)>>, <<p_time_start, PyStr(DateText)>>,
         <<p_time_finish, PyStr(NoDateText)>> >> }

\* the acting user of a request: the organization it belongs to
Users == {[organization_id |-> PyUuid(k)] : k \in Keys}

\* the fields a create request sets, per entity type
CreateEntities(model) ==
    CASE model = Organization -> {c_name :> Acme}
      [] model = User ->
            {c_organization_id :> PyUuid(k) @@ c_is_active :> PyBool(b) :
                 k \in Keys, b \in BOOLEAN}
      [] model = Team ->
            {c_team_id :> t @@ c_user_ids :> u : t \in TeamIds, u \in UserIdLists}

\* an empty dict
EmptyDict == [x \in {} |-> PyNone]

\* the fields an update request sets, per entity type: a subset of the
\* updatable fields, each with a value or an explicit null
UpdateEntities(model) ==
    CASE model = Organization -> {EmptyDict, c_name :> Acme}
      [] model = User ->
            {EmptyDict, c_is_active :> PyNone,
             c_organization_id :> PyNone @@ c_is_active :> PyBool(TRUE)}
            \cup {c_organization_id :> PyUuid(k) @@ c_is_active :> PyNone : k \in Keys}
      [] model = Team -> {c_team_id :> t : t \in TeamIds}

RowCount(st) == Len(st[Organization]) + Len(st[User]) + Len(st[Team])

KeyValue(model, col, k) == IF ColType(model, col) = "uuid" THEN PyUuid(k) ELSE PyInt(k)

\* the key columns the store generates for a new row of model: an id no
\* row of the table holds and, for each id, a uuid of its own
GeneratedKeys(st, model) ==
    LET free == {k \in Keys : \A i \in DOMAIN st[model] :
                                 st[model][i][c_id] # KeyValue(model, c_id, k)}
    IN  IF hasattr(model, c_uuid)
        THEN {c_id :> KeyValue(model, c_id, a) @@ c_uuid :> PyUuid(MaxKey + 1 - a) :
                  a \in free}
        ELSE {c_id :> KeyValue(model, c_id, a) : a \in free}

(* ------------------------------- actions ------------------------------ *)

\* what the last call was and how it ended
Call(op, model, id, depth, entity, qp, out) ==
    [op |-> op, model |-> model, id |-> id, depth |-> depth, entity |-> entity,
     qp |-> qp, out |-> out]

\* no call is being answered
Idle == Call("idle", NoModel, PyNone, 0, EmptyDict, <<>>, Return(PyNone))

Init ==
    /\ store = [m \in Models |-> <<>>]
    /\ last = Idle

Create ==
    \E model \in Models :
      \E entity \in CreateEntities(model), keys \in GeneratedKeys(store, model) :
        LET ended(result) ==
                /\ store' = result.st
                /\ last' = Call("create", model, PyNone, 0, entity, <<>>, result.out)
        IN  /\ last = Idle
            /\ RowCount(store) < MaxRows
            /\ ended(create_entity_in_db(store, model, entity, keys))

Update ==
    \E model \in Models, entity_id \in Identifiers :
      \E entity \in UpdateEntities(model) :
        LET ended(result) ==
                /\ store' = result.st
                /\ last' = Call("update", model, entity_id, 0, entity, <<>>, result.out)
        IN  /\ last = Idle
            /\ ended(update_entity_in_db(store, model, entity_id, entity))

Delete ==
    \E model \in Models, entity_id \in Identifiers :
        LET ended(result) ==
                /\ store' = result.st
                /\ last' = Call("delete", model, entity_id, 0, EmptyDict, <<>>,
                                result.out)
        IN  /\ last = Idle
            /\ ended(delete_entity_from_db_by_id(store, model, entity_id))

GetById ==
    \E model \in Models, entity_id \in Identifiers, depth \in Depths :
        /\ last = Idle
        /\ last' = Call("get", model, entity_id, depth, EmptyDict, <<>>,
                        get_entity_from_db_by_id(store, model, entity_id, depth))
        /\ UNCHANGED store

\* what the last call on the service was, what it called on the
\* repository and how it ended
ServiceCall(op, model, id, depth, entity, qp, user, result) ==
    [op |-> op, model |-> model, id |-> id, depth |-> depth, entity |-> entity,
     qp |-> qp, user |-> user, calls |-> result.calls, out |-> result.out]

ServiceGetById ==
    \E model \in Models, entity_id \in Identifiers :
        /\ last = Idle
        /\ last' = ServiceCall("service_get", model, entity_id,
                               get_entity_from_db_by_id_depth, EmptyDict, <<>>,
                               PyNone, get_entity_by_id(store, model, entity_id))
        /\ UNCHANGED store

List ==
    \E model \in Models, query_parameters \in QueryParameters :
      \E depth \in {0, get_all_entities_from_db_depth} :
        /\ last = Idle
        /\ last' = Call("list", model, PyNone, depth, EmptyDict, query_parameters,
                        get_all_entities_from_db(store, model, query_parameters, depth))
        /\ UNCHANGED store

\* _process_filters_of_query_parameters called on an empty filter list, as
\* count_all_entities, get_all_entity_ids and __get_all_recursive call it
Translate ==
    \E model \in Models, query_parameters \in QueryParameters :
        /\ last = Idle
        /\ last' = Call("translate", model, PyNone, 0, EmptyDict, query_parameters,
                        process_filters_of_query_parameters(model, <<>>,
                                                            query_parameters))
        /\ UNCHANGED store

\* the values a caller passes for user_id: a UUID, its text, an integer,
\* zero, the empty text, None
UserIdValues ==
    {PyUuid(k) : k \in Keys} \cup {PyStr(UuidText(k)) : k \in Keys}
    \cup {PyInt(k) : k \in 0..MaxKey} \cup {PyStr(<<>>), PyNone}

\* the query parameters of a call that filters by user_id, alone or with
\* other parameters before or after it
UserIdQueryParameters ==
    { before \o << <<p_user_id, user_id>> >> \o after :
          user_id \in UserIdValues,
          before \in {<<>>, << <<c_organization_id, PyUuid(1)>> >>},
          after \in {<<>>, << <<c_id, PyUuid(2)>> >>} }

\* the repositories whose filters are translated: those of the stored
\* classes and that of Notification
TranslatedModels == Models \cup {Notification}

\* _process_filters_of_query_parameters called with a user_id parameter
TranslateUserId ==
    \E model \in TranslatedModels, query_parameters \in UserIdQueryParameters :
        /\ last = Idle
        /\ last' = Call("translate", model, PyNone, 0, EmptyDict, query_parameters,
                        process_filters_of_query_parameters(model, <<>>,
                                                            query_parameters))
        /\ UNCHANGED store

\* __get_entity_by_id_or_uuid called on the repository's own model, as
\* delete_entity_from_db_by_id and __get_one_recursive call it
Resolve ==
    \E model \in Models, entity_id \in Identifiers :
        /\ last = Idle
        /\ last' = Call("resolve", model, entity_id, 0, EmptyDict, <<>>,
                        get_entity_by_id_or_uuid(store, model, entity_id))
        /\ UNCHANGED store

\* the answer of the last call is handed to the caller
Respond ==
    /\ last # Idle
    /\ last' = Idle
    /\ UNCHANGED store

Next ==
    \/ Create \/ Update \/ Delete
    \/ GetById \/ ServiceGetById \/ List \/ Translate \/ Resolve
    \/ Respond

Spec == Init /\ [][Next]_vars

\* translations of user_id filters, one at a time
TranslateNext == TranslateUserId \/ Respond

TranslateSpec == Init /\ [][TranslateNext]_vars

(* ------------------------- calls on the service ----------------------- *)

ServiceCreate ==
    \E model \in Models, user \in {PyNone} \cup Users :
      \E entity \in CreateEntities(model), keys \in GeneratedKeys(store, model) :
        LET ended(result) ==
                /\ store' = result.st
                /\ last' = ServiceCall("service_create", model, PyNone, 0, entity,
                                       <<>>, user, result)
        IN  /\ last = Idle
            /\ RowCount(store) < MaxRows
            /\ ended(create_entity(store, model, entity, keys, user))

ServiceUpdate ==
    \E model \in Models, entity_id \in Identifiers, user \in Users :
      \E entity \in UpdateEntities(model) :
        LET ended(result) ==
                /\ store' = result.st
                /\ last' = ServiceCall("service_update", model, entity_id, 0, entity,
                                       <<>>, user, result)
        IN  /\ last = Idle
            /\ ended(update_entity(store, model, entity_id, entity, user))

ServiceDelete ==
    \E model \in Models, entity_id \in Identifiers :
        LET ended(result) ==
                /\ store' = result.st
                /\ last' = ServiceCall("service_delete", model, entity_id, 0,
                                       EmptyDict, <<>>, PyNone, result)
        IN  /\ last = Idle
            /\ ended(delete_entity_by_id(store, model, entity_id))

ServiceList ==
    \E model \in Models :
      \E query_parameters \in QueryParameters \cup TemporalQueryParameters :
        /\ last = Idle
        /\ last' = ServiceCall("service_list", model, PyNone, get_all_entities_depth,
                               EmptyDict, query_parameters, PyNone,
                               get_all_entities(store, model, query_parameters,
                                                get_all_entities_depth))
        /\ UNCHANGED store

ServiceListFiltered ==
    \E model \in Models, query_parameters \in QueryParameters :
        /\ last = Idle
        /\ last' = ServiceCall("service_list_filtered", model, PyNone,
                               get_all_filtered_entities_depth, EmptyDict,
                               query_parameters, PyNone,
                               get_all_filtered_entities(
                                   store, model, query_parameters,
                                   get_all_filtered_entities_depth))
        /\ UNCHANGED store

ServiceNext ==
    \/ ServiceCreate \/ ServiceGetById \/ ServiceUpdate \/ ServiceDelete
    \/ ServiceList \/ ServiceListFiltered
    \/ Respond

ServiceSpec == Init /\ [][ServiceNext]_vars

(* --------------------------- reads in an outage ------------------------ *)

\* the tables whose round trips fail during a call: some, or all of them
Outages == (SUBSET Models) \ {{}}

\* a read and the tables that were down while it ran
OutageCall(call, down) ==
    [op |-> call.op, model |-> call.model, id |-> call.id, depth |-> call.depth,
     entity |-> call.entity, qp |-> call.qp, out |-> call.out, down |-> down]

OutageGetById ==
    \E model \in Models, entity_id \in Identifiers, depth \in Depths :
      \E down \in Outages :
        /\ last = Idle
        /\ last' = OutageCall(
                       Call("outage_get", model, entity_id, depth, EmptyDict, <<>>,
                            get_entity_from_db_by_id(Failing(store, down), model,
                                                     entity_id, depth)),
                       down)
        /\ UNCHANGED store

OutageServiceGetById ==
    \E model \in Models, entity_id \in Identifiers, down \in Outages :
        /\ last = Idle
        /\ last' = OutageCall(
                       Call("outage_service_get", model, entity_id,
                            get_entity_from_db_by_id_depth, EmptyDict, <<>>,
                            get_entity_by_id(Failing(store, down), model,
                                             entity_id).out),
                       down)
        /\ UNCHANGED store

OutageList ==
    \E model \in Models, depth \in Depths, down \in Outages :
        /\ last = Idle
        /\ last' = OutageCall(
                       Call("outage_list", model, PyNone, depth, EmptyDict, <<>>,
                            get_all_entities_from_db(Failing(store, down), model,
                                                     <<>>, depth)),
                       down)
        /\ UNCHANGED store

OutageNext ==
    \/ Create
    \/ OutageGetById \/ OutageServiceGetById \/ OutageList
    \/ Respond

OutageSpec == Init /\ [][OutageNext]_vars

(* ------------------------ the plural fan-out -------------------------- *)

\* the values of a plural column the fan-out runs on: ids in an order that
\* is not the key order, with and without null elements, only nulls, none
GatherValues ==
    {PyList(<<PyInt(2), PyInt(1)>>), PyList(<<PyInt(1), PyNone, PyInt(2)>>),
     PyList(<<PyNone>>), PyList(<<>>)}

\* a plural column whose name is that of no mapped class: tag_ids
c_tag_ids == <<"t", "a", "g", "_", "i", "d", "s">>

\* the plural columns the fan-out runs on
PluralColumns == {c_user_ids, c_tag_ids}

\* [self.__get_one_recursive(model, val, ...) for val in value if val is
\* not None]: one task per element that is not None, not yet run
gather_tasks(value) ==
    LET vals == SelectSeq(value.v, LAMBDA val : val # PyNone)
    IN  [i \in DOMAIN vals |-> [item_id |-> vals[i], state |-> "running",
                                result |-> PyNone]]

\* whether await asyncio.gather(...) resumes the parent: every task is done
gather_done(tasks) == \A i \in DOMAIN tasks : tasks[i].state = "done"

\* Fault variant of gather_results: the results in the order the tasks
\* completed in.
gather_results_as_completed(tasks, completed) ==
    [k \in DOMAIN completed |-> tasks[completed[k]].result]

\* the list asyncio.gather returns: the result of each task, in the order
\* of the awaitables it was given
gather_results(tasks, completed) == [i \in DOMAIN tasks |-> tasks[i].result]

\* the plural branch of __get_one_recursive on a value of a plural column:
\* the tasks are created and scheduled, the parent awaits them
GatherDispatch ==
    \E column \in PluralColumns, value \in GatherValues :
      \E recursive_depth \in 1..get_one_recursive_depth :
        /\ last = Idle
        /\ last' = [op |-> "gather", column |-> column,
                    model |-> get_model_by_name(strip_last_word(column)),
                    id |-> PyNone, depth |-> recursive_depth, entity |-> EmptyDict,
                    qp |-> <<>>, value |-> value, tasks |-> gather_tasks(value),
                    completed |-> <<>>, added |-> EmptyDict, out |-> Return(PyNone)]
        /\ UNCHANGED store

\* one of the running tasks completes.  The tasks share the parent's
\* session: a round trip made while another task is in flight may be
\* refused, which __get_one_recursive turns into None like any other
\* exception of the lookup.
GatherComplete ==
    /\ last.op = "gather"
    /\ \E i \in DOMAIN last.tasks :
        \E result \in {get_one_recursive(store, last.model, last.tasks[i].item_id,
                                         last.depth - 1)}
                       \cup (IF \E j \in DOMAIN last.tasks :
                                    j # i /\ last.tasks[j].state = "running"
                             THEN {PyNone} ELSE {}) :
          /\ last.tasks[i].state = "running"
          /\ last' = [last EXCEPT !.tasks[i].state = "done",
                                  !.tasks[i].result = result,
                                  !.completed = Append(@, i)]
    /\ UNCHANGED store

\* the await returns and the parent goes on with sub_jsons: the keys
\* __add_fields_to_json adds to the parent's document for the column
GatherReturn ==
    LET appended(column_name, sub_jsons) ==
            last' = [last EXCEPT
                        !.op = "gathered",
                        !.out = Return(sub_jsons),
                        !.added = add_fields_to_json(
                                      EmptyDict, << <<column_name, sub_jsons>> >>)]
    IN  /\ last.op = "gather"
        /\ gather_done(last.tasks)
        /\ appended(strip_last_word(last.column) \o <<"s">>,
                    PyList(gather_results(last.tasks, last.completed)))
        /\ UNCHANGED store

\* the answer of a finished call is handed to the caller
GatherRespond ==
    /\ last.op \in {"create", "gathered"}
    /\ Respond

GatherNext ==
    \/ Create
    \/ GatherDispatch \/ GatherComplete \/ GatherReturn
    \/ GatherRespond

GatherSpec == Init /\ [][GatherNext]_vars

(* ---------------------- the steps of a list call --------------------- *)

\* the filters of a get_all_filtered_entities_from_db call: none, or a name
ListFilters == {<<>>, << <<c_name, Acme>> >>}

\* [getattr(self.model, key) == value for key, value in filters.items() if
\* hasattr(self.model, key)]
filter_conditions(model, filters) ==
    LET kept == SelectSeq(filters, LAMBDA f : hasattr(model, f[1]))
    IN  [i \in DOMAIN kept |-> Pred("eq", kept[i][1], kept[i][2])]

\* Fault variant of next_expansion: every entity not yet started may start,
\* as in a gather over the entities.
next_expansion_concurrent(ids, started, finished) ==
    {i \in DOMAIN ids : \A k \in DOMAIN started : started[k] # i}

\* [await self.__get_one_recursive(...) for entity_id in all_db_entities_ids]:
\* the entities whose expansion may start now: the next one in the order of
\* the ids, once every expansion started before has completed
next_expansion(ids, started, finished) ==
    IF Len(started) = Len(finished) /\ Len(started) < Len(ids)
    THEN {Len(started) + 1} ELSE {}

\* a list call in progress: the ids fetched, the number of id queries made,
\* the expansions started and finished, in that order, and their results
Listing(variant, model, depth, selected) ==
    [op |-> IF selected.k = "raise" THEN "listed" ELSE "listing",
     variant |-> variant, model |-> model, id |-> PyNone, depth |-> depth,
     entity |-> EmptyDict, qp |-> <<>>, queries |-> 1,
     ids |-> IF selected.k = "raise" THEN <<>>
             ELSE [i \in DOMAIN selected.v |-> selected.v[i][c_id]],
     started |-> <<>>, finished |-> <<>>, results |-> <<>>,
     out |-> IF selected.k = "raise" THEN selected ELSE Return(PyNone)]

\* __get_all_recursive without query parameters, up to the id query
ListFetchAll ==
    \E model \in Models, depth \in Depths :
        /\ last = Idle
        /\ last' = Listing("all", model, depth, select_where(store, model, <<>>))
        /\ UNCHANGED store

\* __get_filtered_recursive, up to the query of the entities
ListFetchFiltered ==
    \E model \in Models, depth \in Depths, filters \in ListFilters :
        /\ last = Idle
        /\ last' = Listing("filtered", model, depth,
                           select_where(store, model,
                                        filter_conditions(model, filters)))
        /\ UNCHANGED store

\* the expansion of an entity starts
ListExpand ==
    /\ last.op = "listing"
    /\ \E i \in next_expansion(last.ids, last.started, last.finished) :
          last' = [last EXCEPT !.started = Append(@, i)]
    /\ UNCHANGED store

\* an expansion that was started completes with its document
ListExpanded ==
    /\ last.op = "listing"
    /\ \E k \in DOMAIN last.started :
          /\ \A j \in DOMAIN last.finished : last.finished[j] # last.started[k]
          /\ last' = [last EXCEPT
                        !.finished = Append(@, last.started[k]),
                        !.results = Append(@, get_one_recursive(
                                                  store, last.model,
                                                  last.ids[last.started[k]],
                                                  last.depth))]
    /\ UNCHANGED store

\* every entity is expanded: the list is returned
ListReturn ==
    /\ last.op = "listing"
    /\ Len(last.finished) = Len(last.ids)
    /\ last' = [last EXCEPT !.op = "listed", !.out = Return(PyList(last.results))]
    /\ UNCHANGED store

\* the answer of a finished call is handed to the caller
ListRespond ==
    /\ last.op \in {"create", "listed"}
    /\ Respond

ListNext ==
    \/ Create
    \/ ListFetchAll \/ ListFetchFiltered
    \/ ListExpand \/ ListExpanded \/ ListReturn
    \/ ListRespond

ListSpec == Init /\ [][ListNext]_vars

(* ------------------- the recursion of the expander -------------------- *)

\* the depths an expansion is started at: a negative one, none, and up to
\* the depth of a create or update
ExpandDepths == (0 - 1)..get_one_recursive_depth

\* a call of __get_one_recursive: its arguments and the recursive_depth of
\* the call that made it (caller_depth; its own for the outermost call)
Frame(model, item_id, recursive_depth, caller_depth) ==
    [model |-> model, item_id |-> item_id, depth |-> recursive_depth,
     caller_depth |-> caller_depth]

\* Fault variant of decremented: the recursive call is made with the
\* caller's own recursive_depth.
not_decremented(recursive_depth) == recursive_depth

\* recursive_depth=recursive_depth - 1
decremented(recursive_depth) == recursive_depth - 1

\* the one element of a set of one element
Only(S) == CHOOSE x \in S : TRUE

\* the calls of __get_one_recursive that one call makes: none when the
\* lookup fails or finds nothing or recursive_depth is not above 0, else
\* one per singular column of a mapped class and one per non-null element
\* of a plural column that is not None.  (Each intermediate result is
\* bound once, as the one element of a set.)
sub_expansions(st, model, item_id, recursive_depth) ==
    LET of_column(column, value, sub_model) ==
            IF is_model_id_or_uuid(column) THEN
                IF sub_model # NoModel
                THEN <<Frame(sub_model, value, decremented(recursive_depth),
                             recursive_depth)>>
                ELSE <<>>
            ELSE IF is_model_ids_or_uuids(column) /\ value # PyNone THEN
                Only({[i \in DOMAIN vals |->
                          Frame(sub_model, vals[i], decremented(recursive_depth),
                                recursive_depth)] :
                      vals \in {SelectSeq(value.v, LAMBDA val : val # PyNone)}})
            ELSE <<>>
        of_row(json_result) ==
            IF recursive_depth > 0
            THEN Only({Concat(added) :
                       added \in {[i \in DOMAIN Columns(model) |->
                                     Only({of_column(Columns(model)[i],
                                                     json_result[Columns(model)[i]],
                                                     sub_model) :
                                           sub_model \in
                                               {get_model_by_name(strip_last_word(
                                                    Columns(model)[i]))}})]}})
            ELSE <<>>
    IN  Only({IF object_result.k = "raise" THEN <<>>
              ELSE IF object_result.v = PyNone THEN <<>>
              ELSE of_row(object_as_dict(object_result.v)) :
              object_result \in {get_entity_by_id_or_uuid(st, model, item_id)}})

\* the calls of an expansion that are still to run (pending, the next one
\* first), the number of calls that have run, and the document the
\* outermost call returns when they have (the store is not written
\* meanwhile)
Expanding(model, item_id, recursive_depth, json_result) ==
    [op |-> "expanding", model |-> model, id |-> item_id,
     depth |-> recursive_depth, entity |-> EmptyDict, qp |-> <<>>,
     pending |-> <<Frame(model, item_id, recursive_depth, recursive_depth)>>,
     calls |-> 0, json_result |-> json_result, out |-> Return(PyNone)]

\* a team row
CyclicTeam(id, team_id, user_ids) ==
    c_id :> PyInt(id) @@ c_team_id :> PyInt(team_id) @@ c_user_ids :> user_ids

\* the stores the recursion is followed on: an empty one, a team that is
\* its own parent, and two teams that are each other's parent, one of them
\* with the users 2 (not stored) and 1 (stored, of organization Acme)
CyclicStores ==
    { [m \in Models |-> <<>>],
      [m \in Models |-> IF m = Team THEN <<CyclicTeam(1, 1, PyNone)>> ELSE <<>>],
      [m \in Models |->
          CASE m = Team ->
                   <<CyclicTeam(1, 2, PyNone),
                     CyclicTeam(2, 1, PyList(<<PyInt(2), PyInt(1)>>))>>
            [] m = User ->
                   <<c_id :> PyInt(1) @@ c_uuid :> PyUuid(2)
                     @@ c_organization_id :> PyUuid(1)
                     @@ c_is_active :> PyBool(TRUE)>>
            [] m = Organization ->
                   <<c_id :> PyUuid(1) @@ c_name :> Acme>>] }

ExpandInit ==
    /\ store \in CyclicStores
    /\ last = Idle

\* __get_one_recursive is called on an entity
ExpandStart ==
    \E model \in Models, item_id \in Identifiers, recursive_depth \in ExpandDepths :
        /\ last = Idle
        /\ last' = Expanding(model, item_id, recursive_depth,
                             get_one_recursive(store, model, item_id,
                                               recursive_depth))
        /\ UNCHANGED store

\* the next pending call runs: its lookup, and the calls it makes
ExpandStep ==
    /\ last.op = "expanding"
    /\ last.pending # <<>>
    /\ \E made \in {sub_expansions(store, Head(last.pending).model,
                                     Head(last.pending).item_id,
                                     Head(last.pending).depth)} :
          last' = [last EXCEPT !.pending = made \o Tail(@), !.calls = @ + 1]
    /\ UNCHANGED store

\* no call is pending: the outermost call returns its document
ExpandReturn ==
    /\ last.op = "expanding"
    /\ last.pending = <<>>
    /\ last' = [last EXCEPT !.op = "expanded", !.out = Return(last.json_result)]
    /\ UNCHANGED store

\* the answer of a finished call is handed to the caller
ExpandRespond ==
    /\ last.op = "expanded"
    /\ Respond

ExpandNext ==
    \/ ExpandStart \/ ExpandStep \/ ExpandReturn
    \/ ExpandRespond

\* a call that is being awaited goes on running
ExpandSpec ==
    /\ ExpandInit
    /\ [][ExpandNext]_vars
    /\ WF_vars(ExpandStep)
    /\ WF_vars(ExpandReturn)

(* ----------------------------- pagination ----------------------------- *)

\* a team row with no users
TeamRow(id, team_id) == c_id :> PyInt(id) @@ c_team_id :> team_id @@ c_user_ids :> PyNone

\* the stores a paginated list call is made on: teams 1..n, each without a
\* parent or with the first team as its parent
PagedStores ==
    { [m \in Models |-> IF m = Team THEN [i \in 1..n |-> TeamRow(i, parent[i])]
                        ELSE <<>>] :
          n \in 0..MaxTeams, parent \in [1..MaxTeams -> TeamIds] }

\* the items a call passes for limit and for offset: the parameter absent,
\* or an integer
Optional(name, values) == {<<>>} \cup {<< <<name, PyInt(n)>> >> : n \in values}

\* the query parameters of a paginated list call: a filter on the parent,
\* or none, then limit and offset
PagedQueryParameters ==
    { filter \o limit \o offset :
          filter \in {<<>>, << <<c_team_id, PyNone>> >>},
          limit \in Optional(p_limit, 1..MaxLimit),
          offset \in Optional(p_offset, 0..MaxPage) }

PageInit ==
    /\ store \in PagedStores
    /\ last = Idle

\* get_all_entities_from_db with limit / offset among the query parameters
ListPage ==
    \E query_parameters \in PagedQueryParameters :
        /\ last = Idle
        /\ last' = Call("list", Team, PyNone, 0, EmptyDict, query_parameters,
                        get_all_entities_from_db(store, Team, query_parameters, 0))
        /\ UNCHANGED store

PageNext == ListPage \/ Respond

PageSpec == PageInit /\ [][PageNext]_vars

(* ------------------------------- claims ------------------------------- *)

k_organization == <<"o", "r", "g", "a", "n", "i", "z", "a", "t", "i", "o", "n">>

k_team == <<"t", "e", "a", "m">>

k_user == <<"u", "s", "e", "r">>

\* the integer an identifier denotes: an int or its decimal text
IntKeys(i) ==
    IF i.t = "int" THEN {i.v}
    ELSE IF i.t = "str" /\ isdigit(i.v) THEN {int(i.v)}
    ELSE {}

\* the UUID an identifier denotes: a UUID or its text
UuidKeys(i) ==
    IF i.t = "uuid" THEN {i.v}
    ELSE IF i.t = "str" /\ IsUuidText(i.v) THEN {UuidOfText(i.v)}
    ELSE {}

\* whether identifier i names row of table model: by the row's id or, for a
\* type with the secondary key, by its uuid
Matches(model, row, i) ==
    \/ row[c_id] \in {PyInt(n) : n \in IntKeys(i)} \cup {PyUuid(k) : k \in UuidKeys(i)}
    \/ hasattr(model, c_uuid) /\ row[c_uuid] \in {PyUuid(k) : k \in UuidKeys(i)}

MatchingRows(st, model, i) == {row \in Range(st[model]) : Matches(model, row, i)}

\* whether the Identifier Resolver finds a row for identifier i
Resolves(st, model, i) ==
    LET r == get_entity_by_id_or_uuid(st, model, i)
    IN  r.k = "return" /\ r.v # PyNone

\* the row the Identifier Resolver finds
ResolvedRow(st, model, i) == get_entity_by_id_or_uuid(st, model, i).v.v

Max(S) == CHOOSE x \in S : \A y \in S : y <= x

\* the number of documents on the longest path of nested documents in v
RECURSIVE Levels(_)
Levels(v) ==
    IF v.t \in {"doc", "scheme"} THEN 1 + Max({0} \cup {Levels(v.v[c]) : c \in DOMAIN v.v})
    ELSE IF v.t = "list" THEN Max({0} \cup {Levels(v.v[i]) : i \in DOMAIN v.v})
    ELSE 0

\* the documents a read returned
Documents(call) ==
    (IF call.op = "list" THEN Range(call.out.v.v) ELSE {call.out.v}) \ {PyNone}

\* whether v is a document that holds every column of row with row's value
IsDocOf(v, row) == v.t = "doc" /\ \A c \in DOMAIN row : c \in DOMAIN v.v /\ v.v[c] = row[c]

\* the naming conventions of the glossary
IsForeignKeySingular(col) ==
    endswith(col, <<"_", "i", "d">>) \/ endswith(col, <<"_", "u", "u", "i", "d">>)

IsForeignKeyPlural(col) ==
    endswith(col, <<"_", "i", "d", "s">>) \/ endswith(col, <<"_", "u", "u", "i", "d", "s">>)

\* C1: a getById whose identifier matches no stored row ends in NotFound at
\* every depth: the repository (get_entity_from_db_by_id) returns None and
\* raises nothing, and the service (get_entity_by_id) raises
\* NotFoundException; no document and no other error.
C1_NotFoundOnMiss ==
    (last.op \in {"get", "service_get"}
        /\ MatchingRows(store, last.model, last.id) = {}) =>
            /\ last.op = "get" => last.out = Return(PyNone)
            /\ last.op = "service_get" => last.out = Raise("NotFoundException")

\* C1 happens: the table holds rows, the identifier is of a type the key
\* column does not even take, and the service still ends in NotFound
C1_Witness ==
    /\ last.op = "service_get"
    /\ last.model = Team
    /\ store[Team] # <<>>
    /\ last.id.t = "uuid"
    /\ MatchingRows(store, last.model, last.id) = {}
    /\ last.out = Raise("NotFoundException")

\* C2: a document expanded at depth N holds nested documents at most N
\* levels below its root, whatever the rows reference (a team that is its
\* own parent is a cycle), and at depth 0 it is exactly a stored row of the
\* type: its own columns and nothing else.
C2_DepthBound ==
    (last.op \in {"get", "service_get", "list"} /\ last.out.k = "return") =>
        \A doc \in Documents(last) :
            /\ Levels(doc) - 1 <= last.depth
            /\ last.depth = 0 => doc.v \in Range(store[last.model])

\* C2 happens: a team read at depth 1 nests its parent, and the parent has
\* a parent of its own that is not nested
C2_Witness ==
    /\ last.op = "get"
    /\ last.model = Team
    /\ last.depth = 1
    /\ last.out.v # PyNone
    /\ Levels(last.out.v) = 2
    /\ k_team \in DOMAIN last.out.v.v
    /\ last.out.v.v[k_team].v[c_team_id] # PyNone

\* C3: the document create_entity_in_db returns equals the document of a
\* following get_entity_from_db_by_id on the returned id, at every depth a
\* caller passes and at the default depth, nothing being written in between.
C3_RoundTrip ==
    (last.op = "create" /\ last.out.k = "return") =>
        \A depth \in Depths \cup {get_entity_from_db_by_id_depth} :
            get_entity_from_db_by_id(store, last.model, last.out.v.v[c_id], depth)
                = last.out

\* C4: a delete_entity_from_db_by_id whose identifier the Identifier
\* Resolver resolves to a stored row ends without error in the no-content
\* response and removes that row, and the same delete repeated on the store
\* it leaves ends in NotFoundException.
C4_DeleteIdempotent ==
    [][(last.op = "idle" /\ last'.op = "delete"
            /\ Resolves(store, last'.model, last'.id)) =>
          /\ last'.out = Return(NoContent)
          /\ ResolvedRow(store, last'.model, last'.id) \notin Range(store'[last'.model])
          /\ delete_entity_from_db_by_id(store', last'.model, last'.id).out
                 = Raise("NotFoundException")]_vars

\* the row with the non-null fields of entity written over it
Patched(row, entity) ==
    [c \in DOMAIN row |-> IF c \in DOMAIN entity /\ entity[c] # PyNone
                           THEN entity[c] ELSE row[c]]

\* C5: an update_entity_in_db whose identifier resolves to a stored row,
\* and whose write the store accepts, sets on that row exactly the fields
\* given with a non-null value and changes no other field, no other row and
\* no other table; when no field has a non-null value the store is left as
\* it is and the current document of the row is returned.
C5_PatchSemantics ==
    [][(last.op = "idle" /\ last'.op = "update"
            /\ Resolves(store, last'.model, last'.id)
            /\ last'.out # Raise("IntegrityError")) =>
          LET model == last'.model
              row   == ResolvedRow(store, model, last'.id)
          IN  /\ store'[model] =
                     [j \in DOMAIN store[model] |->
                         IF store[model][j] = row THEN Patched(row, last'.entity)
                         ELSE store[model][j]]
              /\ \A other \in Models \ {model} : store'[other] = store[other]
              /\ Patched(row, last'.entity) = row =>
                     /\ store' = store
                     /\ last'.out.k = "return"
                     /\ IsDocOf(last'.out.v, row)]_vars

\* C6: an update_entity_in_db whose identifier resolves to no stored row
\* ends in NotFoundException and leaves the store unchanged; one whose
\* identifier resolves, and whose write the store accepts, returns the
\* re-expanded document of the updated row.
C6_UpdateOutcome ==
    [][(last.op = "idle" /\ last'.op = "update") =>
          IF Resolves(store, last'.model, last'.id)
          THEN last'.out # Raise("IntegrityError") =>
                   /\ last'.out.k = "return"
                   /\ IsDocOf(last'.out.v,
                              Patched(ResolvedRow(store, last'.model, last'.id),
                                      last'.entity))
          ELSE /\ last'.out = Raise("NotFoundException")
               /\ store' = store]_vars

\* The PATCH rule on the updates that return: the one row the identifier
\* names is rewritten with the non-null fields, nothing else changes, and
\* the document returned is the rewritten row's.
PatchWhereUpdateReturns ==
    [][(last.op = "idle" /\ last'.op = "update" /\ last'.out.k = "return") =>
          LET model == last'.model
              rows  == MatchingRows(store, model, last'.id)
              row   == CHOOSE r \in rows : TRUE
          IN  /\ Cardinality(rows) = 1
              /\ store'[model] =
                     [j \in DOMAIN store[model] |->
                         IF store[model][j] = row THEN Patched(row, last'.entity)
                         ELSE store[model][j]]
              /\ \A other \in Models \ {model} : store'[other] = store[other]
              /\ IsDocOf(last'.out.v, Patched(row, last'.entity))
              /\ Patched(row, last'.entity) = row => store' = store]_vars

\* the key a foreign-key-shaped column is expanded under: its name without
\* the _id / _uuid ending
RelationKey(col) ==
    IF endswith(col, <<"_", "u", "u", "i", "d">>) THEN SubSeq(col, 1, Len(col) - 5)
    ELSE SubSeq(col, 1, Len(col) - 3)

\* the registered entity type a relation key names
RegisteredType(x) ==
    CASE x = k_organization -> Organization
      [] x = k_team         -> Team
      [] x = k_user         -> User
      [] OTHER              -> NoModel

\* the stored row a returned document was read from
RootRow(model, doc) == CHOOSE row \in Range(store[model]) : row[c_id] = doc[c_id]

\* C7: in a document read at depth >= 1, every column x_id / x_uuid of the
\* fetched row that is non-null and names a stored row of the registered
\* type X of x is there with its raw value, and the key x holds the
\* document of that row expanded at depth - 1; a user read at depth 1 is
\* its row plus organization: the organization's row.
C7_SingularExpansion ==
    (last.op = "get" /\ last.depth >= 1 /\ last.out.v # PyNone) =>
        LET doc == last.out.v.v
            row == RootRow(last.model, doc)
        IN  /\ \A col \in Range(Columns(last.model)) :
                  LET x == RelationKey(col)
                      X == RegisteredType(x)
                  IN  (/\ IsForeignKeySingular(col)
                       /\ row[col] # PyNone
                       /\ X # NoModel
                       /\ MatchingRows(store, X, row[col]) # {}) =>
                          /\ doc[col] = row[col]
                          /\ x \in DOMAIN doc
                          /\ doc[x] # PyNone
                          /\ doc[x] = get_one_recursive(store, X, row[col],
                                                        last.depth - 1)
            /\ (last.model = User /\ last.depth = 1) =>
                  \E org \in Range(store[Organization]) :
                      /\ org[c_id] = row[c_organization_id]
                      /\ doc = DictSet(row, k_organization, PyDoc(org))

\* C7 happens: a user read at depth 1 carries its organization Acme
C7_Witness ==
    /\ last.op = "get"
    /\ last.model = User
    /\ last.depth = 1
    /\ last.out.v # PyNone
    /\ k_organization \in DOMAIN last.out.v.v
    /\ last.out.v.v[c_organization_id].t = "uuid"
    /\ last.out.v.v[k_organization].v[c_name] = Acme

\* whether no column of the type is foreign-key-shaped
HasNoForeignKeyShapedField(model) ==
    \A col \in Range(Columns(model)) :
        ~IsForeignKeySingular(col) /\ ~IsForeignKeyPlural(col)

\* C8: the document of an entity whose type has no foreign-key-shaped
\* field is the same at every depth >= 0: whatever depth it was read at,
\* the read at each depth 0..4 returns that document.
C8_DepthIrrelevant ==
    (last.op = "get" /\ HasNoForeignKeyShapedField(last.model)
        /\ last.out.v # PyNone) =>
            \A depth \in 0..get_entity_from_db_by_id_depth :
                get_entity_from_db_by_id(store, last.model, last.id, depth) = last.out

\* C8 happens: an organization (id, name) read at depth 2
C8_Witness ==
    /\ last.op = "get"
    /\ last.model = Organization
    /\ HasNoForeignKeyShapedField(last.model)
    /\ last.depth = 2
    /\ last.out.v # PyNone
    /\ last.out.v.v[c_name] = Acme

\* the query parameters of the filter composition scenario
OrganizationsAndActive ==
    << <<c_organization_id, PyList(<<PyStr(UuidText(1)), PyStr(UuidText(2))>>)>>,
       <<c_is_active, PyBool(TRUE)>> >>

\* whether the translator handles a parameter: an id / uuid name, singular
\* or plural, or a boolean value
Handled(item) ==
    IsForeignKeySingular(item[1]) \/ IsForeignKeyPlural(item[1]) \/ item[2].t = "bool"

\* whether predicate p compares with value v, a UUID being compared as text
ComparesWith(p, v) ==
    \/ p.v = v
    \/ v.t = "uuid" /\ p.v = PyStr(UuidText(v.v))

\* whether p is the predicate the parameter item asks for
PredicateOf(p, item) ==
    LET param == item[1]
        value == item[2]
    IN  IF IsForeignKeyPlural(param)
        THEN p.col \in {param, AllButLast(param)} /\ p.op \in {"any", "in"}
                 /\ ComparesWith(p, value)
        ELSE /\ p.col = param
             /\ IF value.t = "bool" THEN p.op = "eq" /\ p.v = value
                ELSE IF value = PyNone THEN p.op = "is_null"
                ELSE IF value.t = "list" THEN p.op = "in" /\ p.v = value
                ELSE p.op = "eq" /\ ComparesWith(p, value)

PluralMatch(model, row, param, values) ==
    IF hasattr(model, param)
    THEN /\ row[param].t = "list"
         /\ \E i \in DOMAIN row[param].v : row[param].v[i] \in Range(values.v)
    ELSE row[AllButLast(param)] \in Range(values.v)

\* C10: a list call at depth 0 with one plural parameter and a list of
\* values, on a type that has the plural column or the singular one,
\* returns exactly the stored rows matching one of the listed values, each
\* as its bare row.
C10_PluralFilter ==
    (/\ last.op = "list"
     /\ last.depth = 0
     /\ Len(last.qp) = 1
     /\ IsForeignKeyPlural(last.qp[1][1])
     /\ last.qp[1][2].t = "list"
     /\ \/ hasattr(last.model, last.qp[1][1])
        \/ hasattr(last.model, AllButLast(last.qp[1][1]))) =>
        LET wanted == SelectSeq(store[last.model],
                          LAMBDA row : PluralMatch(last.model, row, last.qp[1][1],
                                                   last.qp[1][2]))
        IN  last.out = Return(PyList([i \in DOMAIN wanted |-> PyDoc(wanted[i])]))

\* the kinds of key a type is addressed by: the type of its id and, for a
\* type with the secondary key, of its uuid
KeyKinds(model) ==
    {ColType(model, c_id)} \cup (IF hasattr(model, c_uuid) THEN {"uuid"} ELSE {})

\* whether the raw identifier i cannot be converted to a key of the type: a
\* string that is not a number for an integer key and not a UUID for a UUID
\* key
Unconvertible(model, i) ==
    /\ i.t = "str"
    /\ "int" \in KeyKinds(model) => ~isdigit(i.v)
    /\ "uuid" \in KeyKinds(model) => ~IsUuidText(i.v)

\* C11: a getById, update or delete whose raw identifier cannot be
\* converted to the key of the entity type ends in NotFound (None from the
\* repository read, NotFoundException from the service read, update and
\* delete) and never in a type error or an error of the store.
C11_FailsClosed ==
    (last.op \in {"get", "service_get", "update", "delete"}
        /\ Unconvertible(last.model, last.id)) =>
            IF last.op = "get" THEN last.out = Return(PyNone)
            ELSE last.out = Raise("NotFoundException")


\* the mapped object of the row of table model whose column col holds v,
\* None when no row does
RowBy(st, model, col, v) ==
    IF \E row \in Range(st[model]) : row[col] = v
    THEN PyObj(model, CHOOSE row \in Range(st[model]) : row[col] = v)
    ELSE PyNone

\* whether the type has an integer id and a UUID secondary key
IsDualKey(model) == hasattr(model, c_uuid) /\ ColType(model, c_id) = "int"

Min(a, b) == IF a < b THEN a ELSE b

\* the rows of the paged table that match the filter of the call: the teams
\* without a parent when team_id is asked to be null, every team otherwise
MatchingTeams(st, qp) ==
    IF \E i \in DOMAIN qp : qp[i][1] = c_team_id
    THEN SelectSeq(st[Team], LAMBDA row : row[c_team_id] = PyNone)
    ELSE st[Team]

\* C13: a list call with both limit L and offset P returns the matching
\* rows from the (P * L + 1)-th on, at most L of them: offset counts pages
\* of L rows.
C13_Pagination ==
    (/\ last.op = "list"
     /\ Get(last.qp, p_limit) # PyNone
     /\ Get(last.qp, p_offset) # PyNone) =>
        LET L == Get(last.qp, p_limit).v
            P == Get(last.qp, p_offset).v
            matching == MatchingTeams(store, last.qp)
            page == SubSeq(matching, P * L + 1, Min(P * L + L, Len(matching)))
        IN  last.out = Return(PyList([i \in DOMAIN page |-> PyDoc(page[i])]))


\* whether param is a name the translator has no use for on the type: not
\* a field of the type, not the plural of one, and not one of the
\* parameters read by name
Unknown(model, param) ==
    /\ ~hasattr(model, param)
    /\ ~(IsForeignKeyPlural(param) /\ hasattr(model, AllButLast(param)))
    /\ param \notin {p_user_id, p_limit, p_offset, p_time_start, p_time_finish}

\* C14: a query-parameter mapping that holds a parameter unknown to the
\* entity type is still translated, with no predicate for that parameter,
\* and the list call that carries it returns, whatever the suffix of the
\* name and the type of the value.
C14_UnknownIgnored ==
    (last.op \in {"translate", "list"}
        /\ \E i \in DOMAIN last.qp : Unknown(last.model, last.qp[i][1])) =>
            /\ last.out.k = "return"
            /\ last.op = "translate" =>
                  \A j \in DOMAIN last.out.v :
                      \A i \in DOMAIN last.qp :
                          Unknown(last.model, last.qp[i][1]) =>
                              last.out.v[j].col \notin
                                  {last.qp[i][1], AllButLast(last.qp[i][1])}


\* whether s is the text of a date: four digits, two digits, two digits,
\* joined by "-"
IsDateText(s) ==
    /\ Len(s) = 10
    /\ \A i \in DOMAIN s : IF i \in {5, 8} THEN s[i] = "-" ELSE s[i] \in Range(Digits)

\* the texts a call carries for time_start and time_finish
TemporalTexts(qp) ==
    {Get(qp, name).v : name \in {n \in {p_time_start, p_time_finish} :
                                    Get(qp, n) # PyNone}}

\* C15: a list call on the service that carries time_start and / or
\* time_finish ends in BadRequestException exactly when one of the
\* supplied strings is not the text of a date; with parseable strings it
\* returns.
C15_TemporalFilters ==
    (last.op = "service_list" /\ TemporalTexts(last.qp) # {}) =>
        IF \E s \in TemporalTexts(last.qp) : ~IsDateText(s)
        THEN last.out = Raise("BadRequestException")
        ELSE last.out.k = "return"


\* the key a plural foreign-key column is expanded under: its name without
\* the _ids / _uuids ending, pluralized
PluralKey(col) ==
    (IF endswith(col, <<"_", "u", "u", "i", "d", "s">>)
     THEN SubSeq(col, 1, Len(col) - 6)
     ELSE SubSeq(col, 1, Len(col) - 4)) \o <<"s">>

\* the element type of a plural foreign-key column
PluralType(col) == RegisteredType(SubSeq(PluralKey(col), 1, Len(PluralKey(col)) - 1))

\* C16: in a document read at depth >= 1, a singular foreign key that names
\* no stored row leaves no nested key, a plural foreign key leaves one
\* entry per element that names a stored row and no null entry, the read
\* raises nothing, and every column keeps its raw value.
C16_PartialResults ==
    (last.op = "get" /\ last.depth >= 1 /\ last.out.v # PyNone) =>
        LET doc == last.out.v.v
            row == RootRow(last.model, doc)
        IN  /\ last.out.k = "return"
            /\ \A col \in Range(Columns(last.model)) :
                /\ doc[col] = row[col]
                /\ (/\ IsForeignKeySingular(col)
                    /\ row[col] # PyNone
                    /\ RegisteredType(RelationKey(col)) # NoModel
                    /\ MatchingRows(store, RegisteredType(RelationKey(col)),
                                    row[col]) = {}) =>
                        RelationKey(col) \notin DOMAIN doc
                /\ (IsForeignKeyPlural(col) /\ row[col] # PyNone) =>
                      /\ PluralKey(col) \in DOMAIN doc
                      /\ PyNone \notin Range(doc[PluralKey(col)].v)
                      /\ Len(doc[PluralKey(col)].v) =
                            Len(SelectSeq(row[col].v,
                                          LAMBDA val :
                                              MatchingRows(store, PluralType(col),
                                                           val) # {}))


\* whether the expansion of row at depth makes a round trip on a table of
\* down: a non-null singular reference to a registered type in down
SubFetchFails(model, row, depth, down) ==
    /\ depth >= 1
    /\ \E col \in Range(Columns(model)) :
          /\ IsForeignKeySingular(col)
          /\ row[col] # PyNone
          /\ RegisteredType(RelationKey(col)) \in down

\* whether a round trip of the read fails for sure: the base fetch (by an
\* integer id, or the id query of a list) on a table that is down, or a
\* sub-fetch of a row it reads
RoundTripFails(call) ==
    IF call.op = "outage_list"
    THEN \/ call.model \in call.down
         \/ \E row \in Range(store[call.model]) :
                SubFetchFails(call.model, row, call.depth, call.down)
    ELSE \/ call.id.t = "int" /\ call.model \in call.down
         \/ /\ call.model \notin call.down
            /\ \E row \in MatchingRows(store, call.model, call.id) :
                  SubFetchFails(call.model, row, call.depth, call.down)

\* C17: a getById or list call during which a storage round trip fails,
\* in the base fetch or in a sub-fetch of the expansion, fails as a whole:
\* it raises, and what it raises is not NotFound; it returns no document.
C17_StoreFailuresFatal ==
    (/\ last.op \in {"outage_get", "outage_service_get", "outage_list"}
     /\ RoundTripFails(last)) =>
        /\ last.out.k = "raise"
        /\ last.out.e # "NotFoundException"


\* whether sent is the caller's entity as the service hands it on: its
\* fields, with organization_id the caller's or the acting user's
IsCallersEntity(sent, entity, user) ==
    /\ DOMAIN sent \subseteq (DOMAIN entity) \cup {c_organization_id}
    /\ \A c \in (DOMAIN entity) \ {c_organization_id} :
          c \in DOMAIN sent /\ sent[c] = entity[c]
    /\ c_organization_id \in DOMAIN sent =>
          \/ c_organization_id \in DOMAIN entity
                /\ sent[c_organization_id] = entity[c_organization_id]
          \/ user # PyNone /\ sent[c_organization_id] = user.organization_id

\* what the service returns for the outcome of its repository call: the
\* response scheme of a document, None after a delete
Returned(call, result) ==
    /\ store' = result.st
    /\ (result.out.k = "return" /\ call.op = "service_delete") =>
          call.out = Return(PyNone)
    /\ (result.out.k = "return" /\ call.op # "service_delete"
                                /\ result.out.v # PyNone) =>
          /\ call.out.k = "return"
          /\ call.out.v.t = "scheme"
          /\ call.out.v.cls = call.model
          /\ call.out.v.v = result.out.v.v

\* a call of create_entity, get_entity_by_id, update_entity or
\* delete_entity_by_id makes one call on the repository, of the
\* corresponding method with the caller's arguments and the session, and
\* returns what Returned says
Delegates(call) ==
    /\ Len(call.calls) = 1
    /\ call.calls[1].kwargs.session = Session
    /\ CASE call.op = "service_create" ->
              /\ call.calls[1].method = "create_entity_in_db"
              /\ DOMAIN call.calls[1].kwargs = {"entity", "session"}
              /\ IsCallersEntity(call.calls[1].kwargs.entity, call.entity, call.user)
              /\ \E keys \in GeneratedKeys(store, call.model) :
                    Returned(call, create_entity_in_db(store, call.model,
                                                       call.calls[1].kwargs.entity,
                                                       keys))
         [] call.op = "service_get" ->
              /\ call.calls[1] = RepositoryCall("get_entity_from_db_by_id",
                                                [entity_id |-> call.id,
                                                 session |-> Session])
              /\ Returned(call, [st |-> store,
                                 out |-> get_entity_from_db_by_id(
                                             store, call.model, call.id,
                                             get_entity_from_db_by_id_depth)])
         [] call.op = "service_update" ->
              /\ call.calls[1].method = "update_entity_in_db"
              /\ DOMAIN call.calls[1].kwargs = {"entity_id", "entity", "session"}
              /\ call.calls[1].kwargs.entity_id = call.id
              /\ IsCallersEntity(call.calls[1].kwargs.entity, call.entity, call.user)
              /\ Returned(call, update_entity_in_db(store, call.model, call.id,
                                                    call.calls[1].kwargs.entity))
         [] call.op = "service_delete" ->
              /\ call.calls[1] = RepositoryCall("delete_entity_from_db_by_id",
                                                [entity_id |-> call.id,
                                                 session |-> Session])
              /\ Returned(call, delete_entity_from_db_by_id(store, call.model,
                                                            call.id))

\* C18: each of create_entity, get_entity_by_id, update_entity and
\* delete_entity_by_id of the service calls the corresponding repository
\* operation exactly once, with the caller's identifier / entity and the
\* session; create, get and update return the response scheme built from
\* the document the repository returned, and delete returns None.
C18_ServiceDelegation ==
    [][(last'.op \in {"service_create", "service_get", "service_update",
                      "service_delete"}) => Delegates(last')]_vars

\* C18 happens: a user created through the service for an acting user, the
\* scheme of the created document returned
C18_Witness ==
    /\ last.op = "service_create"
    /\ last.model = User
    /\ last.user # PyNone
    /\ Len(last.calls) = 1
    /\ last.calls[1].kwargs.entity[c_organization_id] = last.user.organization_id
    /\ last.out.k = "return"
    /\ last.out.v.t = "scheme"
    /\ last.out.v.v[c_organization_id] = last.user.organization_id

\* C19: get_all_filtered_entities of the service calls
\* get_all_filtered_entities_from_db of the repository exactly once, with
\* the caller's query_parameters, the session and recursive_depth = 4, and
\* what it returns is a list.
C19_FilteredDelegation ==
    (last.op = "service_list_filtered") =>
        /\ last.calls = <<RepositoryCall("get_all_filtered_entities_from_db",
                                         [query_parameters |-> last.qp,
                                          session |-> Session,
                                          recursive_depth |-> 4])>>
        /\ last.out.k = "return" => last.out.v.t = "list"


\* the positions of the elements of a list that are not null, in order
NonNullPositions(v) ==
    LET RECURSIVE from(_)
        from(i) == IF i > Len(v) THEN <<>>
                   ELSE IF v[i] # PyNone THEN <<i>> \o from(i + 1)
                   ELSE from(i + 1)
    IN  from(1)

\* C20: for a plural value v the fan-out dispatches one sub-expansion per
\* non-null element of v, in the order of v, and none for a null element;
\* all of them are in flight from the dispatch on, each until it
\* completes; the parent continues only when every one has completed; and
\* the sequence it continues with holds, at each position, the result of
\* the sub-expansion of the element at that position among the non-null
\* elements of v, whatever order they completed in.
C20_FanOutFanIn ==
    (last.op \in {"gather", "gathered"}) =>
        LET dispatched == NonNullPositions(last.value.v)
        IN  /\ DOMAIN last.tasks = DOMAIN dispatched
            /\ \A i \in DOMAIN last.tasks :
                  /\ last.tasks[i].item_id = last.value.v[dispatched[i]]
                  /\ last.tasks[i].state = "running" <=>
                        ~\E k \in DOMAIN last.completed : last.completed[k] = i
            /\ last.op = "gathered" =>
                  /\ \A i \in DOMAIN last.tasks : last.tasks[i].state = "done"
                  /\ Len(last.completed) = Len(last.tasks)
                  /\ DOMAIN last.out.v.v = DOMAIN dispatched
                  /\ \A i \in DOMAIN dispatched :
                        /\ last.out.v.v[i] = last.tasks[i].result
                        /\ last.out.v.v[i] # PyNone =>
                              last.out.v.v[i] =
                                  get_one_recursive(store, last.model,
                                                    last.value.v[dispatched[i]],
                                                    last.depth - 1)

\* C20 happens: for [1, None, 2] two sub-expansions were dispatched, the
\* one of 2 completed before the one of 1, and the parent continues with
\* the document of user 1 first and the result for 2 second
C20_Witness ==
    /\ last.op = "gathered"
    /\ last.value = PyList(<<PyInt(1), PyNone, PyInt(2)>>)
    /\ Len(last.tasks) = 2
    /\ last.completed = <<2, 1>>
    /\ Len(last.out.v.v) = 2
    /\ last.out.v.v[1] # PyNone
    /\ last.out.v.v[1].v[c_id] = PyInt(1)
    /\ last.out.v.v[2] = last.tasks[2].result

\* the sequence obtained by expanding the non-null elements of a plural
\* value one at a time, in input order, on the store st
SequentialExpansion(st, model, value, depth) ==
    LET vals == SelectSeq(value.v, LAMBDA val : val # PyNone)
    IN  [i \in DOMAIN vals |-> get_one_recursive(st, model, vals[i], depth)]

C22_ListSequential ==
    (last.op \in {"listing", "listed"} /\ last.out.k = "return") =>
        /\ last.queries = 1
        /\ \A k \in DOMAIN last.started : last.started[k] = k
        /\ \A k \in DOMAIN last.finished : last.finished[k] = k
        /\ Len(last.started) - Len(last.finished) \in {0, 1}
        /\ Len(last.started) <= Len(last.ids)
        /\ last.op = "listed" =>
              /\ Len(last.finished) = Len(last.ids)
              /\ last.out.v.v = [i \in DOMAIN last.ids |->
                                    get_one_recursive(store, last.model,
                                                      last.ids[i], last.depth)]

\* C22 happens: two teams listed, the first expanded, then the second
C22_Witness ==
    /\ last.op = "listed"
    /\ last.out.k = "return"
    /\ last.ids = <<PyInt(1), PyInt(2)>>
    /\ last.started = <<1, 2>>
    /\ last.finished = <<1, 2>>
    /\ last.out.v.v[1].v[c_id] = PyInt(1)
    /\ last.out.v.v[2].v[c_id] = PyInt(2)


\* C23: a foreign-key-shaped field whose derived entity name matches no
\* registered entity type is skipped: no sub-fetch is dispatched for it, no
\* key is added to the document for it, and nothing is raised.  Stated for
\* the plural branch on a value that is not null.
C23_UnregisteredSkipped ==
    (last.op \in {"gather", "gathered"} /\ PluralType(last.column) = NoModel) =>
        /\ last.tasks = <<>>
        /\ last.out.k = "return"
        /\ last.op = "gathered" => last.added = EmptyDict


\* whether the row of a model references a row of its own or of another
\* type that references back: a team that is its own parent
IsCyclic(st) ==
    \E row \in Range(st[Team]) :
        \/ row[c_team_id] = row[c_id]
        \/ \E parent \in Range(st[Team]) :
               parent[c_id] = row[c_team_id] /\ parent[c_team_id] = row[c_id]

\* C24: on every finite store, cyclic ones included, and at every depth an
\* expansion that was started ends; every recursive call is made at the
\* depth of its caller minus one, by a caller whose depth is above 0.
C24_Termination ==
    /\ [](last.op = "expanding" =>
            \A k \in DOMAIN last.pending :
                \/ k = Len(last.pending) /\ last.calls = 0
                \/ /\ last.pending[k].depth = last.pending[k].caller_depth - 1
                   /\ last.pending[k].caller_depth > 0)
    /\ (last.op = "expanding") ~> (last.op = "expanded")

\* C24 happens: a team whose parent has it as its parent was expanded at
\* depth 2 and the expansion came back to it
C24_Witness ==
    /\ last.op = "expanded"
    /\ last.model = Team
    /\ last.depth = 2
    /\ IsCyclic(store)
    /\ last.out.v # PyNone
    /\ last.out.v.v[c_team_id] # last.out.v.v[c_id]
    /\ last.out.v.v[k_team].v[k_team].v[c_id] = last.out.v.v[c_id]
    /\ last.calls >= 3


\* the predicates of a translation that are on column col
PredicatesOn(preds, col) == SelectSeq(preds, LAMBDA p : p.col = col)

\* C25: whenever the query parameters contain user_id and the type has a
\* user_uuid field, the translation succeeds with exactly one predicate for
\* the parameter, user_uuid == the supplied value, and none on user_id.
C25_UserIdRewrite ==
    (/\ last.op = "translate"
     /\ \E i \in DOMAIN last.qp : last.qp[i][1] = p_user_id
     /\ hasattr(last.model, c_user_uuid)) =>
        /\ last.out.k = "return"
        /\ PredicatesOn(last.out.v, p_user_id) = <<>>
        /\ Len(SelectSeq(last.out.v,
                         LAMBDA p : p = Pred("eq", c_user_uuid,
                                             Get(last.qp, p_user_id)))) = 1

\* the rows of model in st whose id is that of document doc
RowsOf(st, model, doc) ==
    SelectSeq(st[model], LAMBDA row : row[c_id] = doc.v[c_id])

\* whether call, made on the store before, addressed the row that getById
\* returns for the same identifier on that store: an update has written
\* its non-null fields to that row, or the store refused the data; a
\* delete has removed the row
AddressesSameRow(before, after, call) ==
    LET same_row(got) ==
            (got.k = "return" /\ got.v.t = "doc") =>
                IF call.op = "delete"
                THEN /\ call.out.k = "return"
                     /\ RowsOf(before, call.model, got.v) # <<>>
                     /\ RowsOf(after, call.model, got.v) = <<>>
                ELSE \/ call.out = Raise("IntegrityError")
                     \/ /\ call.out.k = "return"
                        /\ Len(RowsOf(after, call.model, got.v)) = 1
                        /\ \A c \in DOMAIN NonNullFields(call.entity) :
                              RowsOf(after, call.model, got.v)[1][c] = call.entity[c]
    IN  same_row(get_entity_from_db_by_id(before, call.model, call.id, 0))

\* C26: for every entity type and every form of identifier, when getById(id)
\* returns the document of row r, update(id, data) modifies row r and
\* delete(id) removes row r: neither reports NotFound (or another failure of
\* the lookup) nor succeeds leaving r untouched.
C26_ConsistentAddressing ==
    [][(last'.op \in {"update", "delete"}) =>
           AddressesSameRow(store, store', last')]_vars

\* C27: a list call with a non-empty query-parameter mapping, the one that
\* yields no filter predicate (only limit and / or offset) included,
\* completes without error and, when limit L is given, returns at most L
\* entities.
C27_PaginationWithoutFilters ==
    (last.op = "list" /\ last.qp # <<>>) =>
        /\ last.out.k = "return"
        /\ Get(last.qp, p_limit) # PyNone =>
               Len(last.out.v.v) <= Get(last.qp, p_limit).v

(* ----------------------- the session of a request --------------------- *)

\* the requests in flight at once, and the writes a handler makes
MaxRequests == 2

MaxWrites == 2

Requests == 1..MaxRequests

\* a request before get_async_session is entered: where it is, the
\* sessions it has acquired, the writes its handler has flushed, those
\* still in the session's transaction and those committed, the commits and
\* closes issued on its session, and whether the handler raised
NewRequest ==
    [pc |-> "entry", sessions |-> 0, written |-> 0, pending |-> 0, durable |-> 0,
     commits |-> 0, closes |-> 0, commit_failed |-> FALSE, raised |-> FALSE]

\* Fault variant of the resumption of get_async_session: the commit is
\* issued whichever way the handler ended, as from a finally block.
after_yield_finally(raised) == "commit"

\* where get_async_session resumes after `yield session`: at the commit when
\* the handler returned, at the exit of the `async with` when the handler's
\* exception is thrown in at the yield
after_yield(raised) == IF raised THEN "aexit" ELSE "commit"

Requesting == last.op = "requests"

\* request r moves on
Moves(r, request) ==
    /\ last' = [last EXCEPT !.requests[r] = request]
    /\ UNCHANGED store

SessionInit ==
    /\ store = [m \in Models |-> <<>>]
    /\ last = [op |-> "requests", requests |-> [r \in Requests |-> NewRequest]]

\* async with async_session_maker() as session: yield session
SessionAcquire(r) ==
    /\ Requesting
    /\ last.requests[r].pc = "entry"
    /\ Moves(r, [last.requests[r] EXCEPT !.pc = "handler", !.sessions = @ + 1])

\* the handler writes through the session: session.execute and flush
HandlerWrite(r) ==
    /\ Requesting
    /\ last.requests[r].pc = "handler"
    /\ last.requests[r].written < MaxWrites
    /\ Moves(r, [last.requests[r] EXCEPT !.written = @ + 1, !.pending = @ + 1])

\* the handler returns and the generator is resumed
HandlerReturn(r) ==
    /\ Requesting
    /\ last.requests[r].pc = "handler"
    /\ Moves(r, [last.requests[r] EXCEPT !.pc = after_yield(FALSE)])

\* the handler raises and the exception is thrown into the generator
HandlerRaise(r) ==
    /\ Requesting
    /\ last.requests[r].pc = "handler"
    /\ Moves(r, [last.requests[r] EXCEPT !.pc = after_yield(TRUE), !.raised = TRUE])

\* await session.commit(): the transaction is made durable, or the store
\* refuses it and the error leaves the generator through the `async with`
SessionCommit(r) ==
    /\ Requesting
    /\ last.requests[r].pc = "commit"
    /\ \E ok \in BOOLEAN :
         Moves(r, IF ok
                  THEN [last.requests[r] EXCEPT !.pc = "close", !.commits = @ + 1,
                                                !.durable = @ + last.requests[r].pending,
                                                !.pending = 0]
                  ELSE [last.requests[r] EXCEPT !.pc = "aexit", !.commits = @ + 1,
                                                !.commit_failed = TRUE])

\* await session.close()
SessionClose(r) ==
    /\ Requesting
    /\ last.requests[r].pc = "close"
    /\ Moves(r, [last.requests[r] EXCEPT !.pc = "aexit", !.closes = @ + 1,
                                         !.pending = 0])

\* the exit of `async with`: AsyncSession.__aexit__ closes the session,
\* which rolls back what is not committed
SessionExit(r) ==
    /\ Requesting
    /\ last.requests[r].pc = "aexit"
    /\ Moves(r, [last.requests[r] EXCEPT !.pc = "done", !.closes = @ + 1,
                                         !.pending = 0])

SessionNext ==
    \E r \in Requests :
        \/ SessionAcquire(r) \/ HandlerWrite(r) \/ HandlerReturn(r) \/ HandlerRaise(r)
        \/ SessionCommit(r) \/ SessionClose(r) \/ SessionExit(r)

\* the event loop runs a resumed generator to its end
SessionSpec ==
    /\ SessionInit /\ [][SessionNext]_vars
    /\ \A r \in Requests : /\ WF_vars(SessionCommit(r))
                           /\ WF_vars(SessionClose(r))
                           /\ WF_vars(SessionExit(r))

\* the session of request r has been released
Released(r) == last.requests[r].closes > 0

\* the handler of request r has ended, one way or the other
HandlerEnded(r) == last.requests[r].pc \in {"commit", "close", "aexit", "done"}

\* what holds of the session of request r in every state
SessionScoped(r) ==
    LET request == last.requests[r]
    IN  /\ request.sessions <= 1
        /\ request.pc # "entry" => request.sessions = 1
        /\ request.commits <= 1
        /\ request.raised => (request.commits = 0 /\ request.durable = 0)
        /\ request.commits = 1 => ~request.raised
        /\ (request.pc \in {"close", "aexit", "done"} /\ ~request.raised) =>
               request.commits = 1
        /\ request.pc = "done" => (Released(r) /\ request.pending = 0)

MaxMessages == 3

\* max_retries of send_messages
max_retries == 3

\* Fault variant of the test after a failed attempt: the failure is never
\* raised to the caller.
retries_exhausted_never(retry_count) == FALSE

\* `if retry_count >= max_retries` after a failed attempt
retries_exhausted(retry_count) == retry_count >= max_retries

\* a call of send_messages with a batch of messages on a connection that is
\* open or not: where it is, retry_count, the attempts begun, the
\* disconnects made, and the messages published by the loop that is running
Sending(messages, connected) ==
    [op |-> "send", pc |-> "while", messages |-> messages, connected |-> connected,
     retry_count |-> 0, attempts |-> 0, disconnects |-> 0, published |-> 0]

InSend(pc) == last.op = "send" /\ last.pc = pc

SendMessages ==
    \E messages \in 0..MaxMessages, connected \in BOOLEAN :
        /\ last = Idle
        /\ last' = Sending(messages, connected)
        /\ UNCHANGED store

\* the head of the loop and the set-up of an attempt: connect when the
\* connection is closed, open the publish channel, declare the exchange
\* and the queue, bind; any of them may raise
SendAttempt ==
    /\ InSend("while")
    /\ IF last.retry_count < max_retries
       THEN \/ last' = [last EXCEPT !.pc = "transaction", !.attempts = @ + 1,
                                    !.connected = TRUE, !.published = 0]
            \/ last' = [last EXCEPT !.pc = "except", !.attempts = @ + 1]
       ELSE last' = [last EXCEPT !.pc = "returned"]
    /\ UNCHANGED store

\* publish_exchange.publish inside the transaction: the next message is
\* handed over, or the publish raises and the transaction is left
SendInTransaction ==
    /\ InSend("transaction")
    /\ last.published < last.messages
    /\ \/ last' = [last EXCEPT !.published = @ + 1]
       \/ last' = [last EXCEPT !.pc = "fallback", !.published = 0]
    /\ UNCHANGED store

\* the end of `async with self._publish_channel.transaction()`: the commit
\* succeeds and the loop is left, or it raises
SendCommit ==
    /\ InSend("transaction")
    /\ last.published = last.messages
    /\ \/ last' = [last EXCEPT !.pc = "returned"]
       \/ last' = [last EXCEPT !.pc = "fallback", !.published = 0]
    /\ UNCHANGED store

\* `except Exception as tx_error`: every message of the batch is published
\* again outside a transaction; a publish that raises ends the attempt
SendFallback ==
    /\ InSend("fallback")
    /\ last.published < last.messages
    /\ \/ last' = [last EXCEPT !.published = @ + 1]
       \/ last' = [last EXCEPT !.pc = "except"]
    /\ UNCHANGED store

\* the break after the fallback loop
SendFallbackBreak ==
    /\ InSend("fallback")
    /\ last.published = last.messages
    /\ last' = [last EXCEPT !.pc = "returned"]
    /\ UNCHANGED store

\* `except Exception as e`: retry_count += 1, disconnect, then raise or
\* sleep
SendExcept ==
    /\ InSend("except")
    /\ last' = [last EXCEPT !.retry_count = @ + 1, !.disconnects = @ + 1,
                            !.connected = FALSE,
                            !.pc = IF retries_exhausted(last.retry_count + 1)
                                   THEN "raised" ELSE "sleep"]
    /\ UNCHANGED store

\* await asyncio.sleep(2**retry_count) is over
SendSleep ==
    /\ InSend("sleep")
    /\ last' = [last EXCEPT !.pc = "while"]
    /\ UNCHANGED store

\* the call has ended and the caller goes on
SendRespond ==
    /\ last.op = "send"
    /\ last.pc \in {"returned", "raised"}
    /\ last' = Idle
    /\ UNCHANGED store

SendNext ==
    \/ SendMessages \/ SendAttempt \/ SendInTransaction \/ SendCommit
    \/ SendFallback \/ SendFallbackBreak \/ SendExcept \/ SendSleep
    \/ SendRespond

\* the event loop resumes the coroutine after each await
SendSpec ==
    /\ Init /\ [][SendNext]_vars
    /\ WF_vars(SendAttempt) /\ WF_vars(SendInTransaction) /\ WF_vars(SendCommit)
    /\ WF_vars(SendFallback) /\ WF_vars(SendFallbackBreak)
    /\ WF_vars(SendExcept) /\ WF_vars(SendSleep)

\* what holds of a call of send_messages in every state
BoundedRetry ==
    /\ last.attempts <= max_retries
    /\ last.pc \in {"while", "sleep"} =>
           (/\ last.disconnects = last.attempts
            /\ last.retry_count = last.attempts
            /\ last.attempts > 0 => ~last.connected)
    /\ last.pc = "returned" =>
           (/\ last.published = last.messages
            /\ last.attempts \in 1..max_retries
            /\ last.retry_count = last.attempts - 1)
    /\ last.retry_count >= max_retries => last.pc = "raised"
    /\ last.pc = "raised" =>
           (last.attempts = max_retries /\ last.disconnects = max_retries)

\* C29: send_messages makes at most 3 attempts; after each failed attempt it
\* disconnects before it retries; it returns only when one attempt has
\* handed every message of the batch to the exchange; after the third
\* failed attempt it raises instead of returning; and every call ends.
C29_BoundedRetry ==
    /\ [](last.op = "send" => BoundedRetry)
    /\ [][(last.op = "send" /\ last'.op = "send" /\ last'.attempts > last.attempts) =>
              (last.disconnects = last.attempts /\ (last.attempts > 0 => ~last.connected))]_vars
    /\ (last.op = "send") ~> (last.op = "send" /\ last.pc \in {"returned", "raised"})

\* a call that returned on its third attempt, after two failed ones and two
\* disconnects, with the whole batch published
C29_Witness ==
    /\ InSend("returned")
    /\ last.attempts = max_retries
    /\ last.disconnects = 2
    /\ last.messages = MaxMessages
    /\ last.published = MaxMessages

(* ---------------------- the notification websocket -------------------- *)

\* the notification messages followed on one connection
MaxSent == 2

\* the id decode_jwt_flexible gives a token of less than 50 characters
ShortTokenSub == <<"1", "1", "1">>

\* no token in the query string
NoToken == PyNone

\* a token of less than 50 characters
ShortToken == [t |-> "short"]

\* the audiences a token is issued for: none, that of the login
\* ("fastapi-users:auth"), the value of SECRET_AUTH, and another one
TokenAudiences == {"none", "fastapi-users:auth", "SECRET_AUTH", "fastapi-users:verify"}

\* a token of 50 characters or more: whether it parses as a JWT, whether its
\* signature is the one SECRET_AUTH gives, whether it has expired, its
\* audience, and the claim (sub, arg or neither) that names the user
LongTokens ==
    [t : {"jwt"}, wellformed : {TRUE}, signed : BOOLEAN, expired : BOOLEAN,
     aud : TokenAudiences, claim : {"sub", "arg", "none"},
     value : {DigitText(1), ShortTokenSub, <<"x">>}]
    \cup {[t |-> "jwt", wellformed |-> FALSE, signed |-> FALSE, expired |-> FALSE,
           aud |-> "none", claim |-> "none", value |-> <<"x">>]}

Tokens == {NoToken, ShortToken} \cup LongTokens

\* the payload of a token
Payload(token) ==
    IF token.claim = "none" THEN [x \in {} |-> <<>>] ELSE token.claim :> token.value

\* fastapi_users.jwt.decode_jwt(token, secret, audience): the payload when
\* the token parses, is signed with the secret, has not expired and is
\* issued for the audience; audience is a set of names, empty for None
decode_jwt(token, audience) ==
    IF ~token.wellformed THEN Raise("DecodeError")
    ELSE IF ~token.signed THEN Raise("InvalidSignatureError")
    ELSE IF token.expired THEN Raise("ExpiredSignatureError")
    ELSE IF audience = {}
    THEN IF token.aud = "none" THEN Return(Payload(token))
         ELSE Raise("InvalidAudienceError")
    ELSE IF token.aud = "none" THEN Raise("MissingRequiredClaimError")
    ELSE IF token.aud \in audience THEN Return(Payload(token))
    ELSE Raise("InvalidAudienceError")

\* possible_audiences of decode_jwt_flexible
possible_audiences ==
    <<{"fastapi-users:auth"}, {"SECRET_AUTH"}, {"SECRET_AUTH"}, {}>>

\* decode_jwt_flexible
decode_jwt_flexible(token) ==
    IF token = ShortToken
    THEN Return("sub" :> ShortTokenSub @@ "arg" :> ShortTokenSub)
    ELSE IF \E i \in DOMAIN possible_audiences :
                decode_jwt(token, possible_audiences[i]).k = "return"
    THEN Return(Payload(token))
    ELSE IF token.wellformed THEN Return(Payload(token))
    ELSE Raise("DecodeError")

\* a connection of the endpoint: where it is, whether it was accepted, the
\* id of the user it serves, the ids of the users whose notifications were
\* sent on it, and the close code
Connection(token, pc, accepted, user_id, code) ==
    [op |-> "websocket", token |-> token, pc |-> pc, accepted |-> accepted,
     user_id |-> user_id, sent |-> <<>>, code |-> code]

\* session.get(User, user_id)
get_user(st, user_id) ==
    SelectSeq(st[User], LAMBDA row : row[c_id] = PyInt(user_id))

\* websocket_notifications up to the loop: the connection is closed with
\* 1008, or the handler raises and the connection is closed by the finally,
\* or the loop is entered for the user the token names
websocket_notifications(st, token) ==
    LET identified(user_id) ==
            IF get_user(st, user_id) = <<>>
            THEN Connection(token, "closed", TRUE, PyNone, 1008)
            ELSE Connection(token, "loop", TRUE, user_id, 0)
        named(text) ==
            IF isdigit(text) THEN identified(int(text))
            ELSE Connection(token, "raised", TRUE, PyNone, 1000)
        decoded(data) ==
            IF data.k = "raise" THEN Connection(token, "raised", TRUE, PyNone, 1000)
            ELSE IF "sub" \in DOMAIN data.v THEN named(data.v["sub"])
            ELSE IF "arg" \in DOMAIN data.v THEN named(data.v["arg"])
            ELSE Connection(token, "closed", TRUE, PyNone, 1008)
    IN  IF token = NoToken THEN Connection(token, "closed", FALSE, PyNone, 1008)
        ELSE decoded(decode_jwt_flexible(token))

\* a stored user
StoredUser(id, k) ==
    c_id :> PyInt(id) @@ c_uuid :> PyUuid(k) @@ c_organization_id :> PyUuid(1)
    @@ c_is_active :> PyBool(TRUE)

\* the stores the endpoint is served from: an organization and its users
WebsocketStores ==
    { [m \in Models |->
          CASE m = Organization -> <<c_id :> PyUuid(1) @@ c_name :> Acme>>
            [] m = User -> users
            [] OTHER -> <<>>] :
        users \in {<<>>, <<StoredUser(1, 1)>>, <<StoredUser(int(ShortTokenSub), 2)>>,
                   <<StoredUser(1, 1), StoredUser(int(ShortTokenSub), 2)>>} }

WebsocketInit ==
    /\ store \in WebsocketStores
    /\ last = Idle

\* a client connects to /ws/notifications
WebsocketConnect ==
    \E token \in Tokens :
        /\ last = Idle
        /\ last' = websocket_notifications(store, token)
        /\ UNCHANGED store

\* one turn of the loop: the notifications of the user are sent
WebsocketSend ==
    /\ last.op = "websocket"
    /\ last.pc = "loop"
    /\ Len(last.sent) < MaxSent
    /\ last' = [last EXCEPT !.sent = Append(@, last.user_id)]
    /\ UNCHANGED store

\* the client goes away: the send raises and the finally closes
WebsocketDisconnect ==
    /\ last.op = "websocket"
    /\ last.pc = "loop"
    /\ last' = [last EXCEPT !.pc = "closed", !.code = 1000]
    /\ UNCHANGED store

\* the handler has ended
WebsocketRespond ==
    /\ last.op = "websocket"
    /\ last.pc \in {"closed", "raised"}
    /\ last' = Idle
    /\ UNCHANGED store

WebsocketNext ==
    WebsocketConnect \/ WebsocketSend \/ WebsocketDisconnect \/ WebsocketRespond

WebsocketSpec == WebsocketInit /\ [][WebsocketNext]_vars

\* whether token carries a signature that verifies for one of the accepted
\* audiences
Verifies(token) ==
    /\ token \in LongTokens
    /\ \E i \in DOMAIN possible_audiences :
           decode_jwt(token, possible_audiences[i]).k = "return"

\* whether the verified payload of token names the user user_id
Identifies(token, user_id) ==
    /\ Verifies(token)
    /\ token.claim # "none"
    /\ isdigit(token.value)
    /\ int(token.value) = user_id

\* C30: notifications are sent only on a connection whose token carries a
\* valid signature identifying the existing user they belong to; a
\* connection with no token, or with a token that fails verification for
\* every accepted audience, is closed with nothing sent.
C30_AccessControl ==
    last.op = "websocket" =>
        /\ \A i \in DOMAIN last.sent :
              /\ Identifies(last.token, last.sent[i])
              /\ get_user(store, last.sent[i]) # <<>>
        /\ (last.token = NoToken \/ ~Verifies(last.token)) =>
              (last.sent = <<>> /\ last.pc \in {"closed", "raised"})
====
